---- MODULE Spec2Model ----
(***************************************************************************)
(* Model of mcp-audio-tweaker.                                             *)
(*                                                                         *)
(* Spec, FairSpec: the job runner and batch scheduler, BaseAudioProcessor   *)
(* (processAudioFile, batchProcessAudio, pause, resume, clear) on top of a  *)
(* p-queue instance, with the file-system helpers of utils/ffmpeg           *)
(* (validateInputFile, ensureOutputDirectory, handleExistingOutput,         *)
(* executeFFmpegCommand).                                                   *)
(* ToolSpec: the CallToolRequest handler of registerTools, one request      *)
(* through its switch, the processors it awaits and its outer catch.        *)
(* CompileSpec: applyOperationsToCommand of the standard and the advanced   *)
(* processor over a family of AudioOperations records.                      *)
(* VariationSpec: two calls of generateVariations with the same             *)
(* VariationOperation, with the seeded generator of createSeededRandom.     *)
(* HarmonicSpec: createHarmonicVariations, one job per interval with a mix. *)
(* LayerSpec: layerSounds and the filter graph of buildLayeringFilter.      *)
(* LoadSpec: direct processAudioFile calls issued at once on one processor. *)
(* SharedSpec: two batchProcessAudio calls on one processor and its queue.  *)
(*                                                                         *)
(* Every await of the code is a suspension point: the file system and the  *)
(* external engine answer later, with an outcome chosen by the environment. *)
(* The synchronous code between two awaits is one action.                   *)
(***************************************************************************)
EXTENDS Naturals, Integers, Sequences, FiniteSets, TLC

VARIABLES K, queue, pending, isPaused, runs, calls, existing, startLog, pauses,
          compilation, variation, toolCall, harmonic, layering

vars == <<K, queue, pending, isPaused, runs, calls, existing, startLog, pauses,
          compilation, variation, toolCall, harmonic, layering>>

(* ------------------------------ bounds --------------------------------- *)
MaxK == 2
MaxRuns == 3
MaxCalls == 1
MaxPauses == 1
MaxCount == 2
MaxSeed == 2
MaxInputs == 2
MaxLayers == 3

(* ------------------------------ values --------------------------------- *)
None == "none"

\* the input files of the file system, as (directory, base name, extension)
Files ==
  { [dir |-> "in", base |-> "a", ext |-> "mp3"],
    [dir |-> "in/sub", base |-> "a", ext |-> "mp3"],
    [dir |-> "in", base |-> "b", ext |-> "wav"] }

\* default of output.suffix in generateBatchOutputPath and generateOutputFilename
DefaultSuffix == "_processed"

\* an absent input file, an output path not yet derived
NoFile == [dir |-> "", base |-> "", ext |-> ""]
NoPath == [dir |-> "", name |-> <<>>]

\* ProcessingInput: { file?, directory?, pattern? }; the batch tool always
\* passes a directory
InputSpecs ==
  { [file |-> NoFile, directory |-> "in"],
    [file |-> NoFile, directory |-> None] }

\* ProcessingOutput: { file?, directory?, suffix?, format? }
OutputSpecs ==
  { [file |-> "out/one.mp3", directory |-> None, suffix |-> None, format |-> None],
    [file |-> None, directory |-> "out", suffix |-> None, format |-> None] }

\* the order in which the glob lists the files of the input directory
Listing ==
  << [dir |-> "in", base |-> "a", ext |-> "mp3"],
     [dir |-> "in/sub", base |-> "a", ext |-> "mp3"],
     [dir |-> "in", base |-> "b", ext |-> "wav"] >>

\* the lists a glob over the input directory can resolve to: the files that
\* match the pattern, each once, in listing order
DiscoveredLists ==
  { l \in UNION { [1..n -> Files] : n \in 0..MaxRuns } :
      \E pos \in [DOMAIN l -> DOMAIN Listing] :
         /\ \A i \in DOMAIN l : l[i] = Listing[pos[i]]
         /\ \A i, j \in DOMAIN l : i < j => pos[i] < pos[j] }

(* --------------------------- pure functions ---------------------------- *)

\* generateOutputFilename(inputPath, outputDir, suffix, newExtension)
generateOutputFilename(inputPath, outputDir, suffix, newExtension) ==
  [ dir  |-> IF outputDir # None THEN outputDir ELSE inputPath.dir,
    name |-> << inputPath.base,
                IF suffix # None THEN suffix ELSE DefaultSuffix,
                IF newExtension # None THEN newExtension ELSE inputPath.ext >> ]

\* an explicit output file is a path of its own
ExplicitPath(file) == [dir |-> "", name |-> <<file, "", "">>]

\* BaseAudioProcessor.generateBatchOutputPath
generateBatchOutputPath(inputFile, input, output) ==
  IF output.file # None
    THEN ExplicitPath(output.file)
    ELSE IF output.directory # None
      THEN [ dir  |-> output.directory,
             name |-> << inputFile.base,
                         IF output.suffix # None THEN output.suffix ELSE DefaultSuffix,
                         IF output.format # None THEN output.format ELSE inputFile.ext >> ]
      ELSE generateOutputFilename(inputFile, None, output.suffix, output.format)

\* the output paths a call of the model can name
OutputPaths ==
  { generateBatchOutputPath(f, i, o) : f \in Files, i \in InputSpecs, o \in OutputSpecs }

\* output files that may exist before the processor is used
InitialOutputs ==
  { [dir |-> "out", name |-> <<"a", DefaultSuffix, "mp3">>] }

\* the arguments of the direct processAudioFile calls
DirectInputs == { [dir |-> "in", base |-> "a", ext |-> "mp3"] }
DirectOutputs == { [dir |-> "out", name |-> <<"a", DefaultSuffix, "mp3">>] }

(* ----------------------- ProcessingResult records ---------------------- *)
NoResult == [kind |-> "noresult"]

\* the success branch of processAudioFile
SuccessResult(inputFile, outputFile) ==
  [kind |-> "result", success |-> TRUE, inputFile |-> inputFile,
   outputFile |-> outputFile, error |-> None]

\* a catch branch that drops the error message
FailureResultNoMessage(inputFile, outputFile, error) ==
  [kind |-> "result", success |-> FALSE, inputFile |-> inputFile,
   outputFile |-> outputFile, error |-> None]

\* the catch branch of processAudioFile
FailureResult(inputFile, outputFile, error) ==
  [kind |-> "result", success |-> FALSE, inputFile |-> inputFile,
   outputFile |-> outputFile, error |-> error]

(* ------------------------- file-system helpers ------------------------- *)

\* validateInputFile: stat, isFile, access(R_OK)
validateInputFile(statOutcome) ==
  CASE statOutcome = "file"     -> "ok"
    [] statOutcome = "notfile"  -> "Path is not a file"
    [] OTHER                    -> "Cannot access input file"

\* ensureOutputDirectory: mkdir recursive, access(W_OK)
ensureOutputDirectory(mkdirOutcome) ==
  IF mkdirOutcome = "ok" THEN "ok" ELSE "Cannot create or access output directory"

\* the answer of fs.access(outputPath)
AccessOutcomes(outputPath) ==
  (IF outputPath \in existing THEN {"ok"} ELSE {"ENOENT"}) \cup {"EACCES"}

\* an overwrite check that reads the flag the wrong way round
handleExistingOutputInverted(accessOutcome, overwrite) ==
  CASE accessOutcome = "ok" ->
         IF overwrite THEN "Output file already exists" ELSE "ok"
    [] accessOutcome = "ENOENT" -> "ok"
    [] OTHER -> accessOutcome

\* handleExistingOutput(outputPath, overwrite)
handleExistingOutput(accessOutcome, overwrite) ==
  CASE accessOutcome = "ok" ->
         IF ~overwrite THEN "Output file already exists" ELSE "ok"
    [] accessOutcome = "ENOENT" -> "ok"
    [] OTHER -> accessOutcome

(* ------------------------------ p-queue -------------------------------- *)
\* The queue state the operators below transform:
\*   q.queue (waiting job ids, FIFO), q.pending (jobs executing),
\*   q.runs (all runs), q.startLog (job ids in the order they were started).
QState == [queue |-> queue, pending |-> pending, runs |-> runs, startLog |-> startLog]

\* the job function handed to queue.add, up to its first await: derive the
\* output path, build and compile a command, then call processAudioFile,
\* which runs up to the await of validateInputFile
JobBody(run, call) ==
  LET out == generateBatchOutputPath(run.inputFile, call.input, call.output) IN
  IF call.opsThrow
    THEN [run EXCEPT !.outputFile = out, !.pc = "jobThrew", !.steps = <<"compile">>]
    ELSE [run EXCEPT !.outputFile = out, !.pc = "validate", !.steps = <<"compile">>]

\* a start test that ignores the paused flag
TryToStartAnotherIgnorePause(q, paused, k, cs) ==
  IF Len(q.queue) = 0
    THEN q
    ELSE IF q.pending < k
      THEN LET j == Head(q.queue) IN
           [q EXCEPT !.queue = Tail(q.queue),
                     !.pending = q.pending + 1,
                     !.runs[j] = JobBody(q.runs[j], cs[q.runs[j].call]),
                     !.startLog = Append(q.startLog, j)]
      ELSE q

\* a start test that admits one job too many
TryToStartAnotherOffByOne(q, paused, k, cs) ==
  IF Len(q.queue) = 0
    THEN q
    ELSE IF ~paused /\ q.pending <= k
      THEN LET j == Head(q.queue) IN
           [q EXCEPT !.queue = Tail(q.queue),
                     !.pending = q.pending + 1,
                     !.runs[j] = JobBody(q.runs[j], cs[q.runs[j].call]),
                     !.startLog = Append(q.startLog, j)]
      ELSE q

\* PQueue tryToStartAnother: dequeue and run the head job when the queue is
\* not paused and fewer than K jobs are executing
TryToStartAnother(q, paused, k, cs) ==
  IF Len(q.queue) = 0
    THEN q
    ELSE IF ~paused /\ q.pending < k
      THEN LET j == Head(q.queue) IN
           [q EXCEPT !.queue = Tail(q.queue),
                     !.pending = q.pending + 1,
                     !.runs[j] = JobBody(q.runs[j], cs[q.runs[j].call]),
                     !.startLog = Append(q.startLog, j)]
      ELSE q

\* PQueue processQueue: start jobs while one can be started
RECURSIVE ProcessQueue(_, _, _, _)
ProcessQueue(q, paused, k, cs) ==
  LET q2 == TryToStartAnother(q, paused, k, cs) IN
  IF q2 = q THEN q ELSE ProcessQueue(q2, paused, k, cs)

\* an add into a queue of the batch call: the job starts when fewer than K
\* jobs of its own call are executing
QueueAddPerCall(q, run, paused, k, cs) ==
  LET j == Len(q.runs) + 1
      mine == { e \in DOMAIN q.runs :
                  /\ q.runs[e].call = run.call
                  /\ q.runs[e].pc \in {"jobThrew", "validate", "prepare", "check", "engine"} }
  IN IF ~paused /\ Cardinality(mine) < k
       THEN [q EXCEPT !.pending = q.pending + 1,
                      !.runs = Append(q.runs, JobBody(run, cs[run.call])),
                      !.startLog = Append(q.startLog, j)]
       ELSE [q EXCEPT !.queue = Append(q.queue, j), !.runs = Append(q.runs, run)]

\* PQueue add: enqueue the job, then try to start one
QueueAdd(q, run, paused, k, cs) ==
  LET j == Len(q.runs) + 1 IN
  TryToStartAnother([q EXCEPT !.queue = Append(q.queue, j),
                              !.runs = Append(q.runs, run)], paused, k, cs)

\* PQueue next: a job has settled, its slot is free
QueueNext(q, paused, k, cs) ==
  TryToStartAnother([q EXCEPT !.pending = q.pending - 1], paused, k, cs)

\* a run of processAudioFile or a job not yet started
NewRun(c, i, inputFile, outputFile, overwrite, opsThrow, pc) ==
  [call |-> c, idx |-> i, inputFile |-> inputFile, outputFile |-> outputFile,
   overwrite |-> overwrite, opsThrow |-> opsThrow, pc |-> pc,
   result |-> NoResult, nresults |-> 0, engineRuns |-> 0, engine |-> None,
   overtook |-> FALSE, failedStep |-> None, access |-> None, steps |-> <<>>]

\* inputFiles.map(inputFile => this.queue.add(...)) of batchProcessAudio
RECURSIVE SubmitAll(_, _, _, _, _, _, _)
SubmitAll(q, files, i, c, paused, k, cs) ==
  IF i > Len(files)
    THEN q
    ELSE SubmitAll(
           QueueAdd(q, NewRun(c, i, files[i], NoPath, cs[c].overwrite, cs[c].opsThrow, "queued"),
                    paused, k, cs),
           files, i + 1, c, paused, k, cs)

(* ------------------------------- state --------------------------------- *)
NoBatch == [kind |-> "nobatch"]

\* no compilation, no variation run and no tool call under way
Idle == [pc |-> "idle"]

TypeOK ==
  /\ K \in 1..MaxK
  /\ pending \in Nat
  /\ isPaused \in BOOLEAN
  /\ existing \subseteq OutputPaths \cup InitialOutputs
  /\ Len(runs) <= MaxRuns
  /\ Len(calls) <= MaxCalls
  /\ pauses \in 0..MaxPauses

\* new BaseAudioProcessor(concurrency): an empty queue that is not paused
Init ==
  /\ K \in 1..MaxK
  /\ queue = <<>>
  /\ pending = 0
  /\ isPaused = FALSE
  /\ runs = <<>>
  /\ calls = <<>>
  /\ existing \in SUBSET InitialOutputs
  /\ startLog = <<>>
  /\ pauses = 0
  /\ compilation = Idle
  /\ variation = Idle
  /\ toolCall = Idle
  /\ harmonic = Idle
  /\ layering = Idle

DirectRuns == { j \in DOMAIN runs : runs[j].call = 0 }

\* the calls made so far: batchProcessAudio calls and direct processAudioFile calls
NumCalls == Len(calls) + Cardinality(DirectRuns)

\* install a queue state
SetQueue(q) ==
  /\ queue' = q.queue
  /\ pending' = q.pending
  /\ runs' = q.runs
  /\ startLog' = q.startLog

(* ------------------------- processAudioFile ---------------------------- *)

\* a caller invokes processAudioFile itself: the body runs up to the await
\* of validateInputFile
DirectCall(inputFile, outputFile, overwrite, opsThrow) ==
  /\ Len(runs) < MaxRuns
  /\ NumCalls < MaxCalls
  /\ runs' = Append(runs, NewRun(0, 0, inputFile, outputFile, overwrite, opsThrow, "validate"))
  /\ UNCHANGED <<harmonic, layering, compilation, variation, toolCall, K, queue, pending, isPaused, calls, existing, startLog, pauses>>

\* the steps processAudioFile took since its last await when it returns
\* having failed at `failedStep`
StepsTo(failedStep) ==
  CASE failedStep = "compile" -> <<"check", "compile">>
    [] failedStep \in {"validate", "prepare", "check"} -> <<failedStep>>
    [] OTHER -> <<>>

\* processAudioFile returns `result`; for a queued job the promise of
\* queue.add resolves and the queue moves on (PQueue next)
Return(j, result, failedStep, engineOutcome, accessOutcome) ==
  LET done == [runs EXCEPT ![j].pc = "returned", ![j].result = result,
                           ![j].failedStep = failedStep,
                           ![j].steps = runs[j].steps \o StepsTo(failedStep),
                           ![j].access = accessOutcome,
                           ![j].nresults = runs[j].nresults + 1,
                           ![j].engine = engineOutcome,
                           ![j].overtook = \E e \in DOMAIN runs :
                              /\ e < j /\ runs[j].call # 0 /\ runs[e].call = runs[j].call
                              /\ runs[e].pc \notin {"returned", "rejected"}]
      q == [QState EXCEPT !.runs = done] IN
  /\ SetQueue(IF runs[j].call = 0 THEN q ELSE QueueNext(q, isPaused, K, calls))

\* await validateInputFile(inputFile) settles
ValidateDone(j, statOutcome) ==
  /\ runs[j].pc = "validate"
  /\ LET r == validateInputFile(statOutcome) IN
     IF r = "ok"
       THEN /\ runs' = [runs EXCEPT ![j].pc = "prepare",
                                    ![j].steps = Append(runs[j].steps, "validate")]
            /\ UNCHANGED <<queue, pending, startLog>>
       ELSE Return(j, FailureResult(runs[j].inputFile, runs[j].outputFile, r),
                   "validate", None, None)
  /\ UNCHANGED <<harmonic, layering, compilation, variation, toolCall, K, isPaused, calls, existing, pauses>>

\* await ensureOutputDirectory(outputFile) settles
PrepareDone(j, mkdirOutcome) ==
  /\ runs[j].pc = "prepare"
  /\ LET r == ensureOutputDirectory(mkdirOutcome) IN
     IF r = "ok"
       THEN /\ runs' = [runs EXCEPT ![j].pc = "check",
                                    ![j].steps = Append(runs[j].steps, "prepare")]
            /\ UNCHANGED <<queue, pending, startLog>>
       ELSE Return(j, FailureResult(runs[j].inputFile, runs[j].outputFile, r),
                   "prepare", None, None)
  /\ UNCHANGED <<harmonic, layering, compilation, variation, toolCall, K, isPaused, calls, existing, pauses>>

\* await handleExistingOutput(outputFile, overwrite) settles; then, without
\* another await: createFFmpegCommand, applyOperationsToCommand and the
\* start of the engine in executeFFmpegCommand (command.run())
CheckDone(j, accessOutcome) ==
  /\ runs[j].pc = "check"
  /\ accessOutcome \in AccessOutcomes(runs[j].outputFile)
  /\ LET r == handleExistingOutput(accessOutcome, runs[j].overwrite) IN
     IF r # "ok"
       THEN Return(j, FailureResult(runs[j].inputFile, runs[j].outputFile, r),
                   "check", None, accessOutcome)
       ELSE IF runs[j].opsThrow
         THEN Return(j, FailureResult(runs[j].inputFile, runs[j].outputFile, "compile error"),
                     "compile", None, accessOutcome)
         ELSE /\ runs' = [runs EXCEPT ![j].pc = "engine",
                                      ![j].access = accessOutcome,
                                      ![j].steps = runs[j].steps \o
                                                   <<"check", "compile", "execute">>,
                                      ![j].engineRuns = runs[j].engineRuns + 1]
              /\ UNCHANGED <<queue, pending, startLog>>
  /\ UNCHANGED <<harmonic, layering, compilation, variation, toolCall, K, isPaused, calls, existing, pauses>>

\* the engine emits 'end': the output file is written, executeFFmpegCommand
\* resolves and processAudioFile returns the success
EngineEnd(j) ==
  /\ runs[j].pc = "engine"
  /\ Return(j, SuccessResult(runs[j].inputFile, runs[j].outputFile), None, "end", runs[j].access)
  /\ existing' = existing \cup {runs[j].outputFile}
  /\ UNCHANGED <<harmonic, layering, compilation, variation, toolCall, K, isPaused, calls, pauses>>

\* an error handler that starts the engine once more before giving up
EngineErrorRetry(j) ==
  /\ runs[j].pc = "engine"
  /\ IF runs[j].engineRuns < 2
       THEN /\ runs' = [runs EXCEPT ![j].engineRuns = runs[j].engineRuns + 1]
            /\ UNCHANGED <<queue, pending, startLog>>
       ELSE Return(j, FailureResult(runs[j].inputFile, runs[j].outputFile,
                                    "FFmpeg processing failed"), "engine", "error", runs[j].access)
  /\ UNCHANGED <<harmonic, layering, compilation, variation, toolCall, K, isPaused, calls, existing, pauses>>

\* the engine emits 'error': executeFFmpegCommand rejects, the catch branch
\* of processAudioFile returns the failure
EngineError(j) ==
  /\ runs[j].pc = "engine"
  /\ Return(j, FailureResult(runs[j].inputFile, runs[j].outputFile,
                             "FFmpeg processing failed"), "engine", "error", runs[j].access)
  /\ UNCHANGED <<harmonic, layering, compilation, variation, toolCall, K, isPaused, calls, existing, pauses>>

\* the job function threw before calling processAudioFile: the promise of
\* queue.add rejects and the queue moves on (PQueue next)
JobReject(j) ==
  /\ runs[j].pc = "jobThrew"
  /\ SetQueue(QueueNext([QState EXCEPT !.runs[j].pc = "rejected"], isPaused, K, calls))
  /\ UNCHANGED <<harmonic, layering, compilation, variation, toolCall, K, isPaused, calls, existing, pauses>>

(* -------------------------- batchProcessAudio -------------------------- *)

\* a call of batchProcessAudio that awaits findInputFiles
NewBatch(input, output, overwrite, opsThrow) ==
  [input |-> input, output |-> output, overwrite |-> overwrite,
   opsThrow |-> opsThrow, state |-> "discover", files |-> <<>>,
   first |-> 0, result |-> NoBatch, error |-> None]

\* batchProcessAudio is called: it runs up to the await of findInputFiles
BatchCall(input, output, overwrite, opsThrow) ==
  /\ NumCalls < MaxCalls
  /\ calls' = Append(calls, NewBatch(input, output, overwrite, opsThrow))
  /\ UNCHANGED <<harmonic, layering, compilation, variation, toolCall, K, queue, pending, isPaused, runs, existing, startLog, pauses>>

\* what findInputFiles can resolve to, or None when it throws
FindInputFiles(input) ==
  IF input.file # NoFile
    THEN { <<input.file>> }
    ELSE IF input.directory # None
      THEN DiscoveredLists
      ELSE { }

\* a discovery that accepts an empty list
NoFilesFoundNever(files) == FALSE

\* if (inputFiles.length === 0) throw ...
NoFilesFound(files) == Len(files) = 0

\* the batch call ends with an FFmpegError
BatchThrow(c, message) ==
  calls' = [calls EXCEPT ![c].state = "rejected", ![c].error = message]

\* findInputFiles settles; a non-empty list is submitted to the queue, one
\* job per file, and the call awaits Promise.all of the jobs
Discovered(c) ==
  /\ calls[c].state = "discover"
  /\ IF FindInputFiles(calls[c].input) = {}
       THEN /\ BatchThrow(c, "Batch processing failed: No valid input specification provided")
            /\ UNCHANGED <<queue, pending, runs, startLog>>
       ELSE \E files \in FindInputFiles(calls[c].input) :
              IF NoFilesFound(files)
                THEN /\ BatchThrow(c, "Batch processing failed: No audio files found matching the criteria")
                     /\ UNCHANGED <<queue, pending, runs, startLog>>
                ELSE /\ Len(runs) + Len(files) <= MaxRuns
                     /\ calls' = [calls EXCEPT ![c].state = "await", ![c].files = files,
                                               ![c].first = Len(runs) + 1]
                     /\ SetQueue(SubmitAll(QState, files, 1, c, isPaused, K, calls))
  /\ UNCHANGED <<harmonic, layering, compilation, variation, toolCall, K, isPaused, existing, pauses>>

\* the job ids of a call, last submitted first
JobsOfReversed(c) == [i \in 1..Len(calls[c].files) |-> calls[c].first + Len(calls[c].files) - i]

\* the job ids of a call, in submission order
JobsOf(c) == [i \in 1..Len(calls[c].files) |-> calls[c].first + i - 1]

\* results.filter(r => r.success).length
RECURSIVE CountSuccess(_)
CountSuccess(results) ==
  IF results = <<>> THEN 0
  ELSE (IF Head(results).success THEN 1 ELSE 0) + CountSuccess(Tail(results))

\* an aggregation that keeps the successful results only
BatchResultOnlySuccessful(allResults) ==
  LET results == SelectSeq(allResults, LAMBDA r : r # NoResult /\ r.success)
      successfulFiles == CountSuccess(results) IN
  [kind |-> "batch", totalFiles |-> Len(results), successfulFiles |-> successfulFiles,
   failedFiles |-> Len(results) - successfulFiles, results |-> results]

\* the BatchProcessingResult built from the values Promise.all resolved to
BatchResult(allResults) ==
  LET results == SelectSeq(allResults, LAMBDA r : r # NoResult)
      successfulFiles == CountSuccess(results) IN
  [kind |-> "batch", totalFiles |-> Len(results), successfulFiles |-> successfulFiles,
   failedFiles |-> Len(results) - successfulFiles, results |-> results]

\* Promise.all settles: it rejects as soon as one job promise has rejected,
\* and resolves once every job promise has resolved
Settle(c) ==
  /\ calls[c].state = "await"
  /\ LET js == JobsOf(c) IN
     IF \E i \in DOMAIN js : runs[js[i]].pc = "rejected"
       THEN BatchThrow(c, "Batch processing failed: job error")
       ELSE /\ \A i \in DOMAIN js : runs[js[i]].pc = "returned"
            /\ calls' = [calls EXCEPT ![c].state = "returned",
                           ![c].result = BatchResult([i \in DOMAIN js |-> runs[js[i]].result])]
  /\ UNCHANGED <<harmonic, layering, compilation, variation, toolCall, K, queue, pending, isPaused, runs, existing, startLog, pauses>>

(* ------------------------- pause, resume, clear ------------------------ *)

\* pause(): this.queue.pause()
Pause ==
  /\ pauses < MaxPauses
  /\ pauses' = pauses + 1
  /\ isPaused' = TRUE
  /\ UNCHANGED <<harmonic, layering, compilation, variation, toolCall, K, queue, pending, runs, calls, existing, startLog>>

\* resume(): this.queue.start() starts as many queued jobs as slots allow
Resume ==
  /\ isPaused
  /\ isPaused' = FALSE
  /\ SetQueue(ProcessQueue(QState, FALSE, K, calls))
  /\ UNCHANGED <<harmonic, layering, compilation, variation, toolCall, K, calls, existing, pauses>>

\* a clear that also drops the jobs that are executing
ClearAll ==
  /\ queue # <<>>
  /\ queue' = <<>>
  /\ runs' = [j \in DOMAIN runs |->
                IF runs[j].call # 0 /\ runs[j].pc \notin {"returned", "rejected"}
                  THEN [runs[j] EXCEPT !.pc = "cleared"] ELSE runs[j]]
  /\ UNCHANGED <<harmonic, layering, compilation, variation, toolCall, K, pending, isPaused, calls, existing, startLog, pauses>>

\* clear(): this.queue.clear() drops every job that has not started; the
\* promises queue.add returned for them never settle
Clear ==
  /\ queue # <<>>
  /\ queue' = <<>>
  /\ runs' = [j \in DOMAIN runs |->
                IF runs[j].pc = "queued" THEN [runs[j] EXCEPT !.pc = "cleared"] ELSE runs[j]]
  /\ UNCHANGED <<harmonic, layering, compilation, variation, toolCall, K, pending, isPaused, calls, existing, startLog, pauses>>

(* --------------------------- specification ----------------------------- *)
\* the next settlement of the run j: a file-system answer, an engine event
\* or the rejection of its job promise
JobStepOf(j) ==
  /\ j \in DOMAIN runs
  /\ \/ \E o \in {"file", "notfile", "missing"} : ValidateDone(j, o)
     \/ \E o \in {"ok", "fail"} : PrepareDone(j, o)
     \/ \E o \in {"ok", "ENOENT", "EACCES"} : CheckDone(j, o)
     \/ EngineEnd(j)
     \/ EngineError(j)
     \/ JobReject(j)

JobStep == \E j \in 1..MaxRuns : JobStepOf(j)

Next ==
  \/ \E f \in DirectInputs, o \in DirectOutputs, ow \in BOOLEAN, t \in BOOLEAN : DirectCall(f, o, ow, t)
  \/ \E i \in InputSpecs, o \in OutputSpecs, ow \in BOOLEAN, t \in BOOLEAN : BatchCall(i, o, ow, t)
  \/ \E c \in DOMAIN calls : Discovered(c)
  \/ \E c \in DOMAIN calls : Settle(c)
  \/ JobStep
  \/ Pause
  \/ Resume
  \/ Clear

Spec == Init /\ [][Next]_vars

\* Every file-system call settles, every engine run ends or errors, every
\* settled promise is handled, and a paused queue is resumed.
Fairness ==
  /\ \A j \in 1..MaxRuns : WF_vars(JobStepOf(j))
  /\ \A c \in 1..MaxCalls : WF_vars(c \in DOMAIN calls /\ Discovered(c))
  /\ \A c \in 1..MaxCalls : WF_vars(c \in DOMAIN calls /\ Settle(c))
  /\ WF_vars(Resume)

FairSpec == Init /\ [][Next]_vars /\ Fairness

(* ------------------- direct calls under load --------------------------- *)
\* the files of the calls `processAudioFile('/input/stress<i>.wav',
\* '/output/stress<i>.mp3', ...)` a caller makes in one synchronous sweep
LoadInput(i) == [dir |-> "in", base |-> <<"stress", i>>, ext |-> "wav"]
LoadOutput(i) == [dir |-> "out", name |-> <<<<"stress", i>>, "", "mp3">>]

\* the caller has made n calls of processAudioFile one after the other:
\* each ran up to its await of validateInputFile
LoadInit ==
  /\ K \in 1..MaxK
  /\ queue = <<>>
  /\ pending = 0
  /\ isPaused = FALSE
  /\ runs \in { [i \in 1..n |-> NewRun(0, 0, LoadInput(i), LoadOutput(i), FALSE, FALSE,
                                        "validate")] : n \in 1..MaxRuns }
  /\ calls = <<>>
  /\ existing = {}
  /\ startLog = <<>>
  /\ pauses = 0
  /\ compilation = Idle
  /\ variation = Idle
  /\ toolCall = Idle
  /\ harmonic = Idle
  /\ layering = Idle

\* the calls proceed while the caller pauses and resumes the queue
LoadNext ==
  \/ JobStep
  \/ Pause
  \/ Resume

LoadSpec == LoadInit /\ [][LoadNext]_vars

(* ------------------- two batches on one processor ---------------------- *)
\* the batch calls of the model: a directory of inputs, an output
\* directory, operations that compile or throw
SharedBatches ==
  { NewBatch([file |-> NoFile, directory |-> "in"],
             [file |-> None, directory |-> "out", suffix |-> None, format |-> None],
             FALSE, t) : t \in BOOLEAN }

\* two callers have called batchProcessAudio on the same processor: each
\* call ran up to its await of findInputFiles
SharedInit ==
  /\ K \in 1..MaxK
  /\ queue = <<>>
  /\ pending = 0
  /\ isPaused = FALSE
  /\ runs = <<>>
  /\ calls \in { <<a, b>> : a \in SharedBatches, b \in SharedBatches }
  /\ existing = {}
  /\ startLog = <<>>
  /\ pauses = 0
  /\ compilation = Idle
  /\ variation = Idle
  /\ toolCall = Idle
  /\ harmonic = Idle
  /\ layering = Idle

SharedNext ==
  \/ \E c \in DOMAIN calls : Discovered(c)
  \/ \E c \in DOMAIN calls : Settle(c)
  \/ JobStep

SharedSpec == SharedInit /\ [][SharedNext]_vars

(* ------------------------------ MCP tools ------------------------------ *)
\* the cases of the switch in the CallToolRequest handler
ToolNames ==
  { "process_audio_file", "batch_process_audio", "apply_preset", "list_presets",
    "get_queue_status", "generate_variations", "create_harmonics",
    "advanced_process", "layer_sounds" }

\* a name the switch has no case for
UnknownTool == "unknown_tool"

\* request.params.arguments: absent altogether, or an object in which the
\* input path (inputFile, inputDirectory), the output path (outputFile,
\* outputDirectory), the operations and the preset name are present or not;
\* operations may hold a value outside the schema's range, the preset may
\* be a name outside the enumeration
NoArgs ==
  [defined |-> FALSE, input |-> FALSE, output |-> FALSE, operations |-> "absent",
   preset |-> "absent", overwrite |-> FALSE]

ToolArgs(name) ==
  {NoArgs} \cup
  ( CASE name \in {"process_audio_file", "batch_process_audio"} ->
           [defined : {TRUE}, input : BOOLEAN, output : BOOLEAN,
            operations : {"absent", "valid", "outOfRange"}, preset : {"absent"},
            overwrite : BOOLEAN]
      [] name = "apply_preset" ->
           [defined : {TRUE}, input : BOOLEAN, output : {TRUE},
            operations : {"absent"}, preset : {"absent", "known", "unknown"},
            overwrite : BOOLEAN]
      [] OTHER ->
           [defined : {TRUE}, input : BOOLEAN, output : {TRUE},
            operations : {"absent"}, preset : {"absent"}, overwrite : {FALSE}] )

\* ProcessAudioFileInputSchema.parse(args) does not throw
ProcessAudioFileInputSchema(args) ==
  args.defined /\ args.input /\ args.output /\ args.operations = "valid"

\* BatchProcessAudioInputSchema.parse(args) does not throw
BatchProcessAudioInputSchema(args) ==
  args.defined /\ args.input /\ args.output /\ args.operations = "valid"

\* ApplyPresetInputSchema.parse(args) does not throw
ApplyPresetInputSchema(args) ==
  args.defined /\ args.input /\ args.output /\ args.preset = "known"

NoResponse == [kind |-> "noresponse"]

\* return { content: [{ type: 'text', text: JSON.stringify(payload) }] }
Response(payload) == [kind |-> "response", isError |-> FALSE, content |-> payload]

\* an error response that is not marked as an error
ErrorResponseUnmarked(name, message) ==
  [kind |-> "response", isError |-> FALSE,
   content |-> [error |-> [code |-> "TOOL_EXECUTION_FAILED", message |-> message,
                           tool |-> name]]]

\* the response of the handler's outer catch
ErrorResponse(name, message) ==
  [kind |-> "response", isError |-> TRUE,
   content |-> [error |-> [code |-> "TOOL_EXECUTION_FAILED", message |-> message,
                           tool |-> name]]]

\* a request the handler has received
NewToolCall(name, args) ==
  [pc |-> "received", name |-> name, args |-> args, fallback |-> FALSE,
   thrown |-> None, response |-> NoResponse]

\* the case returns its payload
Respond(payload) ==
  toolCall' = [toolCall EXCEPT !.pc = "done", !.response = Response(payload)]

\* a fault leaves the switch: catch (error) { ... return { ..., isError: true } }
Catch(message) ==
  toolCall' = [toolCall EXCEPT !.pc = "done", !.thrown = message,
                               !.response = ErrorResponse(toolCall.name, message)]

\* the paths a request names
ToolInput == CHOOSE f \in DirectInputs : TRUE
ToolOutput == CHOOSE o \in DirectOutputs : TRUE

\* the case calls processAudioFile with the fields of `a` and awaits it
StartJob(a, opsThrow, fallback) ==
  /\ runs' = Append(runs, NewRun(0, 0, IF a.input THEN ToolInput ELSE NoFile,
                                 IF a.output THEN ToolOutput ELSE NoPath,
                                 a.overwrite, opsThrow, "validate"))
  /\ toolCall' = [toolCall EXCEPT !.pc = "awaitJob", !.fallback = fallback]

\* the case calls batchProcessAudio with the fields of `a` and awaits it
StartBatch(a, fallback) ==
  /\ calls' = Append(calls,
       NewBatch([file |-> NoFile, directory |-> IF a.input THEN "in" ELSE None],
                [file |-> None, directory |-> IF a.output THEN "out" ELSE None,
                 suffix |-> None, format |-> None],
                a.overwrite, a.operations = "absent"))
  /\ toolCall' = [toolCall EXCEPT !.pc = "awaitBatch", !.fallback = fallback]

\* reading a field of undefined arguments
TypeErrorMessage == "Cannot read properties of undefined"

\* case 'process_audio_file': parse, then the standard processor; when the
\* parse throws, the advanced processor with the unparsed arguments
CallProcessAudioFile ==
  /\ toolCall.pc = "received"
  /\ toolCall.name = "process_audio_file"
  /\ LET a == toolCall.args IN
     IF ProcessAudioFileInputSchema(a)
       THEN StartJob(a, FALSE, FALSE)
       ELSE IF ~a.defined
         THEN Catch(TypeErrorMessage) /\ UNCHANGED runs
         ELSE StartJob(a, a.operations = "absent", TRUE)
  /\ UNCHANGED <<harmonic, layering, compilation, variation, K, queue, pending, isPaused, calls, existing,
                 startLog, pauses>>

\* case 'batch_process_audio': parse, then the standard processor; when the
\* parse throws, the advanced processor with the unparsed arguments
CallBatchProcessAudio ==
  /\ toolCall.pc = "received"
  /\ toolCall.name = "batch_process_audio"
  /\ LET a == toolCall.args IN
     IF BatchProcessAudioInputSchema(a)
       THEN StartBatch(a, FALSE)
       ELSE IF ~a.defined
         THEN Catch(TypeErrorMessage) /\ UNCHANGED calls
         ELSE StartBatch(a, TRUE)
  /\ UNCHANGED <<harmonic, layering, compilation, variation, K, queue, pending, isPaused, runs, existing,
                 startLog, pauses>>

\* case 'apply_preset': parse, getPreset, then the standard processor
CallApplyPreset ==
  /\ toolCall.pc = "received"
  /\ toolCall.name = "apply_preset"
  /\ LET a == toolCall.args IN
     IF ApplyPresetInputSchema(a)
       THEN StartJob(a, FALSE, FALSE)
       ELSE Catch("invalid arguments") /\ UNCHANGED runs
  /\ UNCHANGED <<harmonic, layering, compilation, variation, K, queue, pending, isPaused, calls, existing,
                 startLog, pauses>>

\* cases 'list_presets' and 'get_queue_status': answer from memory
CallQuery ==
  /\ toolCall.pc = "received"
  /\ toolCall.name \in {"list_presets", "get_queue_status"}
  /\ Respond(IF toolCall.name = "list_presets" THEN "presets" ELSE "status")
  /\ UNCHANGED <<harmonic, layering, compilation, variation, K, queue, pending, isPaused, runs, calls,
                 existing, startLog, pauses>>

\* case 'advanced_process': the advanced processor with the unparsed arguments
CallAdvancedProcess ==
  /\ toolCall.pc = "received"
  /\ toolCall.name = "advanced_process"
  /\ LET a == toolCall.args IN
     IF ~a.defined
       THEN Catch(TypeErrorMessage) /\ UNCHANGED runs
       ELSE StartJob(a, FALSE, FALSE)
  /\ UNCHANGED <<harmonic, layering, compilation, variation, K, queue, pending, isPaused, calls, existing,
                 startLog, pauses>>

\* cases 'generate_variations', 'create_harmonics' and 'layer_sounds': the
\* advanced processor's operation is called with the unparsed arguments
CallAdvancedTool ==
  /\ toolCall.pc = "received"
  /\ toolCall.name \in {"generate_variations", "create_harmonics", "layer_sounds"}
  /\ IF ~toolCall.args.defined
       THEN Catch(TypeErrorMessage)
       ELSE toolCall' = [toolCall EXCEPT !.pc = "awaitOperation"]
  /\ UNCHANGED <<harmonic, layering, compilation, variation, K, queue, pending, isPaused, runs, calls,
                 existing, startLog, pauses>>

\* default: throw new Error(`Unknown tool: ${name}`)
CallUnknown ==
  /\ toolCall.pc = "received"
  /\ toolCall.name \notin ToolNames
  /\ Catch("Unknown tool")
  /\ UNCHANGED <<harmonic, layering, compilation, variation, K, queue, pending, isPaused, runs, calls,
                 existing, startLog, pauses>>

\* what fs.stat and fs.mkdir can answer for the paths of the request
StatOutcomes(inputFile) ==
  IF inputFile = NoFile THEN {"missing"} ELSE {"file", "notfile", "missing"}

MkdirOutcomes(outputFile) ==
  IF outputFile = NoPath THEN {"fail"} ELSE {"ok", "fail"}

\* the next settlement of the run j of a tool call
ToolJobStepOf(j) ==
  /\ j \in DOMAIN runs
  /\ \/ \E o \in StatOutcomes(runs[j].inputFile) : ValidateDone(j, o)
     \/ \E o \in MkdirOutcomes(runs[j].outputFile) : PrepareDone(j, o)
     \/ \E o \in {"ok", "ENOENT", "EACCES"} : CheckDone(j, o)
     \/ EngineEnd(j)
     \/ EngineError(j)
     \/ JobReject(j)

\* the awaited processAudioFile has returned: the case returns the result
JobReturned ==
  /\ toolCall.pc = "awaitJob"
  /\ runs[Len(runs)].pc = "returned"
  /\ Respond(runs[Len(runs)].result)
  /\ UNCHANGED <<harmonic, layering, compilation, variation, K, queue, pending, isPaused, runs, calls,
                 existing, startLog, pauses>>

\* the awaited batchProcessAudio has settled: its result is returned; its
\* error is caught by the inner catch, which calls the advanced processor
\* with the unparsed arguments, or, thrown there, by the outer catch
BatchSettled ==
  /\ toolCall.pc = "awaitBatch"
  /\ LET c == Len(calls) IN
     /\ calls[c].state \in {"returned", "rejected"}
     /\ IF calls[c].state = "returned"
          THEN Respond(calls[c].result) /\ UNCHANGED calls
          ELSE IF toolCall.fallback
            THEN Catch(calls[c].error) /\ UNCHANGED calls
            ELSE StartBatch(toolCall.args, TRUE)
  /\ UNCHANGED <<harmonic, layering, compilation, variation, K, queue, pending, isPaused, runs, existing,
                 startLog, pauses>>

\* the awaited generateVariations, createHarmonicVariations or layerSounds
\* resolves or rejects
OperationSettled(outcome) ==
  /\ toolCall.pc = "awaitOperation"
  /\ IF outcome = "resolved" THEN Respond("results") ELSE Catch("operation failed")
  /\ UNCHANGED <<harmonic, layering, compilation, variation, K, queue, pending, isPaused, runs, calls,
                 existing, startLog, pauses>>

\* the server has received one request
ToolInit ==
  /\ K \in 1..MaxK
  /\ queue = <<>>
  /\ pending = 0
  /\ isPaused = FALSE
  /\ runs = <<>>
  /\ calls = <<>>
  /\ existing \in SUBSET InitialOutputs
  /\ startLog = <<>>
  /\ pauses = 0
  /\ compilation = Idle
  /\ variation = Idle
  /\ harmonic = Idle
  /\ layering = Idle
  /\ toolCall \in { NewToolCall(n, a) : n \in ToolNames \cup {UnknownTool}, a \in
                      UNION { ToolArgs(m) : m \in ToolNames \cup {UnknownTool} } }
  /\ toolCall.args \in ToolArgs(toolCall.name)

ToolStep ==
  \/ CallProcessAudioFile
  \/ CallBatchProcessAudio
  \/ CallApplyPreset
  \/ CallQuery
  \/ CallAdvancedProcess
  \/ CallAdvancedTool
  \/ CallUnknown
  \/ JobReturned
  \/ BatchSettled
  \/ \E o \in {"resolved", "rejected"} : OperationSettled(o)

ToolNext ==
  \/ ToolStep
  \/ \E j \in 1..MaxRuns : ToolJobStepOf(j)
  \/ \E c \in DOMAIN calls : Discovered(c)
  \/ \E c \in DOMAIN calls : Settle(c)

ToolSpec == ToolInit /\ [][ToolNext]_vars

(* ------------------------- operation compiler -------------------------- *)
\* an optional field: absent, or present with a value
Absent == <<>>
Has(f) == f # Absent
Val(f) == f[1]
Opt(S) == {Absent} \cup { <<x>> : x \in S }

\* JavaScript truthiness of an optional number and of an optional boolean
TruthyNumber(f) == Has(f) /\ Val(f) # 0
TruthyBoolean(f) == Has(f) /\ Val(f)

\* const targetLUFS = operations.volume.targetLUFS || -23
DefaultLUFS == -23

\* const feedback = spatial.delayFeedback || 0.3, in hundredths
DefaultFeedback == 30

\* createFFmpegCommand(inputFile): a command without filters and settings
createFFmpegCommand ==
  [filters |-> <<>>, sampleRate |-> Absent, channels |-> Absent, codec |-> Absent,
   bitrate |-> Absent, seek |-> Absent, duration |-> Absent]

\* a filter directive: the filter's name and its parameters
Directive(kind, p) == [kind |-> kind, p |-> p]

\* command.audioFilters(filters): the engine's filter list grows by a copy
\* of the filters given
audioFilters(command, filters) == [command EXCEPT !.filters = @ \o filters]

\* a volume step that emits the normalization before the gain
applyVolumeNormalizeFirst(command, ops) ==
  IF ~Has(ops.volume) THEN command
  ELSE LET v == Val(ops.volume)
           targetLUFS == IF TruthyNumber(v.targetLUFS) THEN Val(v.targetLUFS)
                         ELSE DefaultLUFS
           c1 == IF TruthyBoolean(v.normalize)
                   THEN audioFilters(command, <<Directive("loudnorm", <<targetLUFS, 7, -2>>)>>)
                   ELSE command
       IN IF Has(v.adjust)
            THEN audioFilters(c1, <<Directive("volume", <<Val(v.adjust)>>)>>)
            ELSE c1

\* a volume step that tests the gain for truthiness
applyVolumeSkipZero(command, ops) ==
  IF ~Has(ops.volume) THEN command
  ELSE LET v == Val(ops.volume)
           c1 == IF TruthyNumber(v.adjust)
                   THEN audioFilters(command, <<Directive("volume", <<Val(v.adjust)>>)>>)
                   ELSE command
           targetLUFS == IF TruthyNumber(v.targetLUFS) THEN Val(v.targetLUFS)
                         ELSE DefaultLUFS
       IN IF TruthyBoolean(v.normalize)
            THEN audioFilters(c1, <<Directive("loudnorm", <<targetLUFS, 7, -2>>)>>)
            ELSE c1

\* applyOperationsToCommand, volume: volume=XdB, then loudnorm=I=..:LRA=7:tp=-2
applyVolume(command, ops) ==
  IF ~Has(ops.volume) THEN command
  ELSE LET v == Val(ops.volume)
           c1 == IF Has(v.adjust)
                   THEN audioFilters(command, <<Directive("volume", <<Val(v.adjust)>>)>>)
                   ELSE command
           targetLUFS == IF TruthyNumber(v.targetLUFS) THEN Val(v.targetLUFS)
                         ELSE DefaultLUFS
       IN IF TruthyBoolean(v.normalize)
            THEN audioFilters(c1, <<Directive("loudnorm", <<targetLUFS, 7, -2>>)>>)
            ELSE c1

\* mapCodecToFFmpeg(codec)
mapCodecToFFmpeg(codec) ==
  CASE codec = "pcm"    -> "pcm_s16le"
    [] codec = "mp3"    -> "libmp3lame"
    [] codec = "aac"    -> "aac"
    [] codec = "vorbis" -> "libvorbis"
    [] codec = "flac"   -> "flac"
    [] OTHER            -> codec

\* applyOperationsToCommand, format: audioFrequency, audioChannels,
\* audioCodec, audioBitrate
applyFormat(command, ops) ==
  IF ~Has(ops.format) THEN command
  ELSE LET f == Val(ops.format)
           c1 == IF TruthyNumber(f.sampleRate)
                   THEN [command EXCEPT !.sampleRate = f.sampleRate] ELSE command
           c2 == IF TruthyNumber(f.channels)
                   THEN [c1 EXCEPT !.channels = f.channels] ELSE c1
           c3 == IF Has(f.codec) /\ Val(f.codec) # ""
                   THEN [c2 EXCEPT !.codec = <<mapCodecToFFmpeg(Val(f.codec))>>] ELSE c2
       IN IF TruthyNumber(f.bitrate) THEN [c3 EXCEPT !.bitrate = f.bitrate] ELSE c3

\* an effects step that sets the duration whatever the bounds of the trim
applyEffectsAlwaysDuration(command, ops) ==
  IF ~Has(ops.effects) THEN [command |-> command, filters |-> <<>>]
  ELSE LET e == Val(ops.effects)
           f1 == IF Has(e.fadeIn)
                   THEN <<Directive("afade_in", <<0, Val(e.fadeIn)>>)>> ELSE <<>>
           f2 == IF Has(e.fadeOut)
                   THEN Append(f1, Directive("afade_out", <<Val(e.fadeOut), 1>>)) ELSE f1
           c1 == IF Has(e.trim)
                   THEN [command EXCEPT !.seek = <<Val(e.trim).start>>,
                                        !.duration = <<Val(e.trim).end - Val(e.trim).start>>]
                   ELSE command
           c2 == IF Len(f2) > 0 THEN audioFilters(c1, f2) ELSE c1
           f3 == IF Has(e.loop) /\ Val(e.loop).enabled /\ Val(e.loop).count > 1
                   THEN Append(f2, Directive("aloop", <<Val(e.loop).count - 1>>)) ELSE f2
       IN [command |-> c2, filters |-> f3]

\* applyOperationsToCommand, effects: the fades are collected in the local
\* list `filters`, the trim sets seekInput and duration, the list is given
\* to command.audioFilters, and then the loop directive is pushed onto the
\* local list; the step yields the command and the local list
applyEffects(command, ops) ==
  IF ~Has(ops.effects) THEN [command |-> command, filters |-> <<>>]
  ELSE LET e == Val(ops.effects)
           f1 == IF Has(e.fadeIn)
                   THEN <<Directive("afade_in", <<0, Val(e.fadeIn)>>)>> ELSE <<>>
           f2 == IF Has(e.fadeOut)
                   THEN Append(f1, Directive("afade_out", <<Val(e.fadeOut), 1>>)) ELSE f1
           c1 == IF Has(e.trim)
                   THEN LET t == Val(e.trim)
                            sought == [command EXCEPT !.seek = <<t.start>>]
                        IN IF t.end > t.start
                             THEN [sought EXCEPT !.duration = <<t.end - t.start>>]
                             ELSE sought
                   ELSE command
           c2 == IF Len(f2) > 0 THEN audioFilters(c1, f2) ELSE c1
           f3 == IF Has(e.loop) /\ Val(e.loop).enabled /\ Val(e.loop).count > 1
                   THEN Append(f2, Directive("aloop", <<Val(e.loop).count - 1>>)) ELSE f2
       IN [command |-> c2, filters |-> f3]

\* BaseAudioProcessor.applyOperationsToCommand(command, operations)
baseApplyOperationsToCommand(command, ops) ==
  applyEffects(applyFormat(applyVolume(command, ops), ops), ops).command

\* buildPitchFilter(pitch): asetrate=44100*ratio,aresample=44100 and, with
\* preserveFormants, atempo=1/ratio, where ratio = 2^(totalCents/1200); the
\* directive carries totalCents and whether the tempo is compensated
buildPitchFilter(pitch) ==
  LET totalCents == pitch.semitones * 100 +
                    (IF TruthyNumber(pitch.cents) THEN Val(pitch.cents) ELSE 0)
  IN Directive("pitch", <<totalCents, TruthyBoolean(pitch.preserveFormants)>>)

\* buildTempoFilter(tempo): atempo=factor, or the rate trick
buildTempoFilter(tempo) ==
  Directive("tempo", <<tempo.factor, TruthyBoolean(tempo.preservePitch)>>)

\* buildSpectralFilter(spectral): the bands present, in one expression
buildSpectralFilter(spectral) ==
  LET b1 == IF Has(spectral.bassBoost)
              THEN <<Directive("bass", <<Val(spectral.bassBoost)>>)>> ELSE <<>>
      b2 == IF Has(spectral.trebleBoost)
              THEN Append(b1, Directive("treble", <<Val(spectral.trebleBoost)>>)) ELSE b1
      b3 == IF Has(spectral.midCut)
              THEN Append(b2, Directive("equalizer", <<1000, 500,
                     IF Val(spectral.midCut) < 0 THEN Val(spectral.midCut)
                     ELSE 0 - Val(spectral.midCut)>>)) ELSE b2
      b4 == IF Has(spectral.warmth)
              THEN Append(b3, Directive("equalizer", <<200, 100, Val(spectral.warmth) * 3>>))
              ELSE b3
  IN IF Has(spectral.brightness)
       THEN Append(b4, Directive("equalizer", <<8000, 2000, Val(spectral.brightness) * 4>>))
       ELSE b4

\* buildDynamicsFilters(dynamics)
buildDynamicsFilters(dynamics) ==
  LET d1 == IF Has(dynamics.compressor)
              THEN <<Directive("acompressor", <<Val(dynamics.compressor)>>)>> ELSE <<>>
      d2 == IF Has(dynamics.gate)
              THEN Append(d1, Directive("agate", <<Val(dynamics.gate)>>)) ELSE d1
  IN IF Has(dynamics.limiter)
       THEN Append(d2, Directive("alimiter", <<Val(dynamics.limiter)>>)) ELSE d2

Min(a, b) == IF a < b THEN a ELSE b
Max(a, b) == IF a > b THEN a ELSE b
Abs(a) == IF a < 0 THEN 0 - a ELSE a

\* buildSpatialFilters(spatial); pan in {-1, 0, 1}, feedback in hundredths
buildSpatialFilters(spatial) ==
  LET s1 == IF Has(spatial.stereoWidth)
              THEN <<Directive("extrastereo", <<Val(spatial.stereoWidth)>>)>> ELSE <<>>
      s2 == IF Has(spatial.panPosition)
              THEN LET pan == Val(spatial.panPosition) IN
                   Append(s1, Directive("pan", <<1 - Abs(Min(0, pan)), Max(0, 0 - pan),
                                                 1 - Abs(Max(0, pan)), Max(0, pan)>>))
              ELSE s1
      feedback == IF TruthyNumber(spatial.delayFeedback) THEN Val(spatial.delayFeedback)
                  ELSE DefaultFeedback
      s3 == IF Has(spatial.delayTime)
              THEN LET d == Append(s2, Directive("adelay", <<Val(spatial.delayTime),
                                                             Val(spatial.delayTime)>>))
                   IN IF feedback > 0
                        THEN Append(d, Directive("afeedback", <<feedback>>)) ELSE d
              ELSE s2
  IN IF Has(spatial.reverbSend)
       THEN Append(s3, Directive("aecho", <<Val(spatial.reverbSend) * 1000,
                                            Val(spatial.reverbSend)>>))
       ELSE s3

\* buildModulationFilters(modulation)
buildModulationFilters(modulation) ==
  LET m1 == IF Has(modulation.tremolo)
              THEN <<Directive("tremolo", <<Val(modulation.tremolo)>>)>> ELSE <<>>
      m2 == IF Has(modulation.vibrato)
              THEN Append(m1, Directive("vibrato", <<Val(modulation.vibrato)>>)) ELSE m1
  IN IF Has(modulation.chorus)
       THEN Append(m2, Directive("chorus", <<Val(modulation.chorus)>>)) ELSE m2

\* applyAdvancedOperations(command, advanced): pitch, tempo, spectral (when
\* its expression is not empty), dynamics, spatial, modulation, given to
\* command.audioFilters in one call when there is any
applyAdvancedOperations(command, advanced) ==
  LET a1 == IF Has(advanced.pitch) THEN <<buildPitchFilter(Val(advanced.pitch))>> ELSE <<>>
      a2 == IF Has(advanced.tempo)
              THEN Append(a1, buildTempoFilter(Val(advanced.tempo))) ELSE a1
      spectralFilter == IF Has(advanced.spectral)
                          THEN buildSpectralFilter(Val(advanced.spectral)) ELSE <<>>
      a3 == IF Len(spectralFilter) > 0
              THEN Append(a2, Directive("spectral", spectralFilter)) ELSE a2
      a4 == IF Has(advanced.dynamics)
              THEN a3 \o buildDynamicsFilters(Val(advanced.dynamics)) ELSE a3
      a5 == IF Has(advanced.spatial)
              THEN a4 \o buildSpatialFilters(Val(advanced.spatial)) ELSE a4
      a6 == IF Has(advanced.modulation)
              THEN a5 \o buildModulationFilters(Val(advanced.modulation)) ELSE a5
  IN IF Len(a6) > 0 THEN audioFilters(command, a6) ELSE command

\* a processor whose applyOperationsToCommand compiles the advanced block
\* whichever class it belongs to
applyOperationsToCommandAny(processor, command, ops) ==
  LET base == baseApplyOperationsToCommand(command, ops) IN
  IF Has(ops.advanced)
    THEN applyAdvancedOperations(base, Val(ops.advanced))
    ELSE base

\* applyOperationsToCommand(command, operations) of the processor: the
\* standard AudioProcessor compiles the base operations (and warns about an
\* advanced block), the AdvancedAudioProcessor compiles the advanced block
\* after them
applyOperationsToCommand(processor, command, ops) ==
  LET base == baseApplyOperationsToCommand(command, ops) IN
  IF processor = "advanced" /\ Has(ops.advanced)
    THEN applyAdvancedOperations(base, Val(ops.advanced))
    ELSE base

\* VolumeOperation records
Volume(adjust, normalize, targetLUFS) ==
  <<[adjust |-> adjust, normalize |-> normalize, targetLUFS |-> targetLUFS]>>

VolumeOps ==
  { Absent,
    Volume(Absent, Absent, Absent),
    Volume(<<-3>>, Absent, Absent),
    Volume(<<0>>, Absent, Absent),
    Volume(Absent, <<TRUE>>, Absent),
    Volume(<<-3>>, <<TRUE>>, <<-16>>),
    Volume(<<6>>, <<FALSE>>, <<-16>>) }

\* FormatOperation records
FormatOps ==
  { Absent,
    <<[sampleRate |-> Absent, channels |-> Absent, codec |-> Absent, bitrate |-> Absent]>>,
    <<[sampleRate |-> Absent, channels |-> Absent, codec |-> <<"mp3">>, bitrate |-> Absent]>>,
    <<[sampleRate |-> <<44100>>, channels |-> <<2>>, codec |-> <<"opus">>,
       bitrate |-> <<192>>]>> }

\* EffectsOperation records
Trims == { [start |-> 5, end |-> 15], [start |-> 5, end |-> 3], [start |-> 5, end |-> 5] }
Loops == { [enabled |-> TRUE, count |-> 3], [enabled |-> TRUE, count |-> 1],
           [enabled |-> FALSE, count |-> 3] }

EffectsOps ==
  Opt([fadeIn : Opt({2}), fadeOut : Opt({8}), trim : Opt(Trims), loop : Opt(Loops)])

\* the sub-blocks of AdvancedEffectsOperation
Pitches ==
  { [semitones |-> 2, cents |-> Absent, preserveFormants |-> Absent],
    [semitones |-> -1, cents |-> <<50>>, preserveFormants |-> <<TRUE>>] }

Tempos ==
  { [factor |-> 120, preservePitch |-> <<TRUE>>],
    [factor |-> 80, preservePitch |-> Absent] }

Spectral(bass, treble, mid, warmth, brightness) ==
  [bassBoost |-> bass, trebleBoost |-> treble, midCut |-> mid, warmth |-> warmth,
   brightness |-> brightness]

Spectrals ==
  { Spectral(Absent, Absent, Absent, Absent, Absent),
    Spectral(<<4>>, Absent, Absent, Absent, Absent),
    Spectral(Absent, Absent, <<3>>, Absent, Absent),
    Spectral(<<4>>, <<-2>>, <<-3>>, <<1>>, <<1>>) }

Compressor == [threshold |-> -20, ratio |-> 4, attack |-> 5, release |-> 50]
Gate == [threshold |-> -40, ratio |-> 2]
Limiter == [threshold |-> -1]

Dynamics ==
  { [compressor |-> Absent, gate |-> Absent, limiter |-> Absent],
    [compressor |-> <<Compressor>>, gate |-> Absent, limiter |-> Absent],
    [compressor |-> Absent, gate |-> Absent, limiter |-> <<Limiter>>],
    [compressor |-> <<Compressor>>, gate |-> <<Gate>>, limiter |-> <<Limiter>>] }

Spatial(width, pan, delay, feedback, reverb) ==
  [stereoWidth |-> width, panPosition |-> pan, delayTime |-> delay,
   delayFeedback |-> feedback, reverbSend |-> reverb]

Spatials ==
  { Spatial(Absent, Absent, Absent, Absent, Absent),
    Spatial(<<1>>, Absent, Absent, Absent, Absent),
    Spatial(Absent, <<-1>>, Absent, Absent, Absent),
    Spatial(Absent, Absent, <<100>>, Absent, Absent),
    Spatial(Absent, Absent, <<100>>, <<0>>, Absent),
    Spatial(Absent, Absent, <<100>>, <<50>>, Absent),
    Spatial(<<2>>, <<1>>, <<100>>, <<50>>, <<1>>) }

Tremolo == [rate |-> 5, depth |-> 1]
Vibrato == [rate |-> 6, depth |-> 1]
Chorus == [rate |-> 1, depth |-> 1, delay |-> 20]

Modulations ==
  { [tremolo |-> Absent, vibrato |-> Absent, chorus |-> Absent],
    [tremolo |-> <<Tremolo>>, vibrato |-> Absent, chorus |-> Absent],
    [tremolo |-> Absent, vibrato |-> Absent, chorus |-> <<Chorus>>],
    [tremolo |-> <<Tremolo>>, vibrato |-> <<Vibrato>>, chorus |-> <<Chorus>>] }

Advanced(pitch, tempo, spectral, dynamics, spatial, modulation) ==
  <<[pitch |-> pitch, tempo |-> tempo, spectral |-> spectral, dynamics |-> dynamics,
     spatial |-> spatial, modulation |-> modulation]>>

\* the advanced blocks of the model: none, the empty one, one sub-block
\* alone, and every sub-block at once
AdvancedOps ==
  { Absent, Advanced(Absent, Absent, Absent, Absent, Absent, Absent) }
  \cup { Advanced(<<x>>, Absent, Absent, Absent, Absent, Absent) : x \in Pitches }
  \cup { Advanced(Absent, <<x>>, Absent, Absent, Absent, Absent) : x \in Tempos }
  \cup { Advanced(Absent, Absent, <<x>>, Absent, Absent, Absent) : x \in Spectrals }
  \cup { Advanced(Absent, Absent, Absent, <<x>>, Absent, Absent) : x \in Dynamics }
  \cup { Advanced(Absent, Absent, Absent, Absent, <<x>>, Absent) : x \in Spatials }
  \cup { Advanced(Absent, Absent, Absent, Absent, Absent, <<x>>) : x \in Modulations }
  \cup { Advanced(<<p>>, <<t>>, <<Spectral(<<4>>, <<-2>>, <<-3>>, <<1>>, <<1>>)>>,
                  <<[compressor |-> <<Compressor>>, gate |-> <<Gate>>,
                     limiter |-> <<Limiter>>]>>,
                  <<Spatial(<<2>>, <<1>>, <<100>>, <<50>>, <<1>>)>>,
                  <<[tremolo |-> <<Tremolo>>, vibrato |-> <<Vibrato>>,
                     chorus |-> <<Chorus>>]>>) : p \in Pitches, t \in Tempos }

\* the AudioOperations records of the model
OperationSets ==
  [volume : VolumeOps, format : FormatOps, effects : EffectsOps, advanced : AdvancedOps]

\* the processors: AudioProcessor and AdvancedAudioProcessor
Processors == {"standard", "advanced"}

\* a job that has built its command and is about to compile
NewCompilation(processor, ops) ==
  [pc |-> "created", processor |-> processor, operations |-> ops,
   command |-> createFFmpegCommand, engine |-> Absent, result |-> Absent]

\* this.applyOperationsToCommand(command, operations)
Compile ==
  /\ compilation.pc = "created"
  /\ compilation' = [compilation EXCEPT !.pc = "compiled",
        !.command = applyOperationsToCommand(compilation.processor, compilation.command,
                                             compilation.operations)]
  /\ UNCHANGED <<harmonic, layering, variation, toolCall, K, queue, pending, isPaused, runs, calls,
                 existing, startLog, pauses>>

\* the engine outcomes of executeFFmpegCommand
EngineOutcomes == {"end", "error"}

\* await executeFFmpegCommand(command, outputFile): command.run() hands the
\* plan to the engine; on 'end' processAudioFile returns success: true, on
\* 'error' its catch returns success: false, both with the operations it
\* was given
Execute(outcome) ==
  /\ compilation.pc = "compiled"
  /\ compilation' = [compilation EXCEPT !.pc = "executed",
        !.engine = <<outcome>>,
        !.result = <<[success |-> outcome = "end",
                      operations |-> compilation.operations]>>]
  /\ UNCHANGED <<harmonic, layering, variation, toolCall, K, queue, pending, isPaused, runs, calls,
                 existing, startLog, pauses>>

\* a processor is about to compile an OperationSet
CompileInit ==
  /\ K = 1
  /\ queue = <<>>
  /\ pending = 0
  /\ isPaused = FALSE
  /\ runs = <<>>
  /\ calls = <<>>
  /\ existing = {}
  /\ startLog = <<>>
  /\ pauses = 0
  /\ variation = Idle
  /\ toolCall = Idle
  /\ harmonic = Idle
  /\ layering = Idle
  /\ compilation \in { NewCompilation(p, ops) : p \in Processors, ops \in OperationSets }

CompileNext == Compile \/ \E outcome \in EngineOutcomes : Execute(outcome)

CompileSpec == CompileInit /\ [][CompileNext]_vars

(* ------------------------- generateVariations -------------------------- *)
\* the constants of createSeededRandom; the modulus 0x100000000 is Limb * Limb
LcgMultiplier == 1664525
LcgIncrement == 1013904223
Limb == 65536

\* Math.floor(Math.random() * 1000000) is below this limit
RandomSeedLimit == 1000000

\* the seeds Math.random can supply (a sample of 0 .. RandomSeedLimit - 1)
RandomSeeds == {0, 1, RandomSeedLimit - 1}

\* the seeds a request can carry: the schema of the tool says `number` and
\* sets no bound; the negative ones are multiples of -SeedStep
SeedStep == 500
Seeds == (0..MaxSeed) \cup { 0 - n * SeedStep : n \in 1..MaxSeed }

\* the state of the generator, let state = seed: its sign and its
\* magnitude, a number below 0x100000000, as two 16-bit limbs
SeedState(seed) ==
  [neg |-> seed < 0, hi |-> (Abs(seed) \div Limb) % Limb, lo |-> Abs(seed) % Limb]

\* state = (state * 1664525 + 1013904223) % 0x100000000, where % keeps the
\* sign of the dividend: from a state >= 0 the sum is reduced; from a state
\* -m the sum is 1013904223 - m * 1664525, which is kept as it is when it
\* is >= 0 and else becomes -((m * 1664525 - 1013904223) % 0x100000000)
LcgNext(st) ==
  LET aLo == LcgMultiplier % Limb
      aHi == LcgMultiplier \div Limb
      cLo == LcgIncrement % Limb
      cHi == LcgIncrement \div Limb
      low == st.lo * aLo + cLo
      high == st.hi * aLo + st.lo * aHi + cHi + (low \div Limb)
      pLow == st.lo * aLo
      pHigh == st.hi * aLo + st.lo * aHi + (pLow \div Limb)
      borrow == IF pLow % Limb < cLo THEN 1 ELSE 0
      small == LcgIncrement - st.lo * LcgMultiplier
  IN IF ~st.neg
       THEN [neg |-> FALSE, hi |-> high % Limb, lo |-> low % Limb]
       ELSE IF st.hi = 0 /\ st.lo <= LcgIncrement \div LcgMultiplier
         THEN [neg |-> FALSE, hi |-> small \div Limb, lo |-> small % Limb]
         ELSE [neg |-> TRUE, hi |-> (pHigh - cHi - borrow) % Limb,
               lo |-> (pLow - cLo) % Limb]

\* rng() - 0.5 as a multiple of 1 / 0x100000000: the number
\* state - 0x80000000, written hi * Limb + lo with 0 <= lo < Limb
Centered(st) ==
  IF ~st.neg
    THEN [hi |-> st.hi - (Limb \div 2), lo |-> st.lo]
    ELSE IF st.lo = 0
      THEN [hi |-> 0 - st.hi - (Limb \div 2), lo |-> 0]
      ELSE [hi |-> 0 - st.hi - (Limb \div 2) - 1, lo |-> Limb - st.lo]

\* a perturbation absent from the variation
NoShift == [num |-> [hi |-> 0, lo |-> 0], range |-> 0]

\* (rng() - 0.5) * 2 * range, the value num * range / 0x80000000
Shift(st, range) == [num |-> Centered(st), range |-> range]

\* 1 + ((rng() - 0.5) * 0.2), the value 1 + num / (10 * 0x80000000)
TempoShift(st) == [num |-> Centered(st), range |-> 1]


\* variations.seed || Math.floor(Math.random() * 1000000)
ChooseSeed(seed, random) == IF TruthyNumber(seed) THEN Val(seed) ELSE random

\* generateRandomVariation(variations, rng): the variation and the state of
\* the generator after its draws
generateRandomVariation(v, st) ==
  LET s1 == IF v.pitchRange # 0 THEN LcgNext(st) ELSE st
      s2 == IF v.spectralRange # 0 THEN LcgNext(s1) ELSE s1
      s3 == IF v.spectralRange # 0 THEN LcgNext(s2) ELSE s2
      s4 == IF v.timingRange # 0 THEN LcgNext(s3) ELSE s3
  IN [ state |-> s4,
       variation |->
         [ pitch  |-> IF v.pitchRange # 0 THEN Shift(s1, v.pitchRange) ELSE NoShift,
           bass   |-> IF v.spectralRange # 0 THEN Shift(s2, v.spectralRange) ELSE NoShift,
           treble |-> IF v.spectralRange # 0 THEN Shift(s3, v.spectralRange) ELSE NoShift,
           tempo  |-> IF v.timingRange # 0 THEN TempoShift(s4) ELSE NoShift ] ]

\* the VariationOperation records of the model
VariationParams ==
  [count : 0..MaxCount, pitchRange : {0, 2}, spectralRange : {0, 3},
   timingRange : {0, 1}, seed : Opt(Seeds)]

\* a call of generateVariations that awaits validateInputFile
NewGeneration ==
  [pc |-> "validate", inputFile |-> ToolInput, seed |-> Absent,
   state |-> SeedState(0), i |-> 0, out |-> <<>>, outputFile |-> NoPath,
   results |-> <<>>, threw |-> None]

\* path.join(outputDirectory, `${name}_var${i + 1}${ext}`), i counted from 0
VariationOutput(inputFile, i) ==
  [dir |-> "out", name |-> <<inputFile.base, "_var", i + 1, inputFile.ext>>]

\* a loop that ends at the first failed result
IterateStopOnFailure(g, v) ==
  IF g.i < v.count /\ (g.results = <<>> \/ g.results[Len(g.results)].success)
    THEN LET r == generateRandomVariation(v, g.state) IN
         [g EXCEPT !.pc = "job", !.i = g.i + 1, !.state = r.state,
                   !.out = Append(g.out, r.variation),
                   !.outputFile = VariationOutput(g.inputFile, g.i)]
    ELSE [g EXCEPT !.pc = "returned"]

\* one pass of the loop body up to the await of processAudioFile, or the
\* return of the results when the loop has ended
Iterate(g, v) ==
  IF g.i < v.count
    THEN LET r == generateRandomVariation(v, g.state) IN
         [g EXCEPT !.pc = "job", !.i = g.i + 1, !.state = r.state,
                   !.out = Append(g.out, r.variation),
                   !.outputFile = VariationOutput(g.inputFile, g.i)]
    ELSE [g EXCEPT !.pc = "returned"]

\* await validateInputFile(inputFile) settles in the call k
VarValidateDone(k, statOutcome) ==
  /\ variation.pc = "running"
  /\ variation.gen[k].pc = "validate"
  /\ variation' = [variation EXCEPT !.gen[k] =
        IF validateInputFile(statOutcome) = "ok"
          THEN [@ EXCEPT !.pc = "prepare"]
          ELSE [@ EXCEPT !.pc = "threw", !.threw = "validate"]]
  /\ UNCHANGED <<harmonic, layering, compilation, toolCall, K, queue, pending, isPaused, runs, calls,
                 existing, startLog, pauses>>

\* await ensureOutputDirectory(outputDirectory) settles in the call k; then
\* the seed is chosen, the generator created and the loop entered
VarPrepareDone(k, mkdirOutcome, random) ==
  /\ variation.pc = "running"
  /\ variation.gen[k].pc = "prepare"
  /\ LET g == variation.gen[k]
         seed == ChooseSeed(variation.params.seed, random) IN
     variation' = [variation EXCEPT !.gen[k] =
        IF ensureOutputDirectory(mkdirOutcome) = "ok"
          THEN Iterate([g EXCEPT !.seed = <<seed>>, !.state = SeedState(seed)],
                       variation.params)
          ELSE [g EXCEPT !.pc = "threw", !.threw = "prepare"]]
  /\ UNCHANGED <<harmonic, layering, compilation, toolCall, K, queue, pending, isPaused, runs, calls,
                 existing, startLog, pauses>>

\* await processAudioFile(...) returns in the call k: the result is pushed
\* and the loop goes on
VarJobDone(k, success) ==
  /\ variation.pc = "running"
  /\ variation.gen[k].pc = "job"
  /\ LET g == variation.gen[k] IN
     variation' = [variation EXCEPT !.gen[k] =
        Iterate([g EXCEPT !.results = Append(g.results,
                   IF success THEN SuccessResult(g.inputFile, g.outputFile)
                   ELSE FailureResult(g.inputFile, g.outputFile, "processing failed"))],
                variation.params)]
  /\ UNCHANGED <<harmonic, layering, compilation, toolCall, K, queue, pending, isPaused, runs, calls,
                 existing, startLog, pauses>>

\* two calls of generateVariations with the same VariationOperation
VariationInit ==
  /\ K \in 1..MaxK
  /\ queue = <<>>
  /\ pending = 0
  /\ isPaused = FALSE
  /\ runs = <<>>
  /\ calls = <<>>
  /\ existing = {}
  /\ startLog = <<>>
  /\ pauses = 0
  /\ compilation = Idle
  /\ toolCall = Idle
  /\ harmonic = Idle
  /\ layering = Idle
  /\ variation \in [pc : {"running"}, params : VariationParams,
                    gen : {<<NewGeneration, NewGeneration>>}]

VariationNext ==
  \/ \E k \in 1..2, o \in {"file", "notfile", "missing"} : VarValidateDone(k, o)
  \/ \E k \in 1..2, o \in {"ok", "fail"}, r \in RandomSeeds : VarPrepareDone(k, o, r)
  \/ \E k \in 1..2, ok \in BOOLEAN : VarJobDone(k, ok)

VariationSpec == VariationInit /\ [][VariationNext]_vars

(* ---------------------- createHarmonicVariations ---------------------- *)
\* the mix levels of a request, in hundredths
HarmonicMixes == {0, 30}

\* HarmonicsOperation: { octaveUp?, octaveDown?, fifthUp?, thirdUp? }
HarmonicsOperations ==
  [octaveUp : Opt(HarmonicMixes), octaveDown : Opt(HarmonicMixes),
   fifthUp : Opt(HarmonicMixes), thirdUp : Opt(HarmonicMixes)]

\* const harmonicIntervals = [...]
harmonicIntervals(harmonics) ==
  << [name |-> "octave_up", semitones |-> 12, mix |-> harmonics.octaveUp],
     [name |-> "octave_down", semitones |-> -12, mix |-> harmonics.octaveDown],
     [name |-> "fifth_up", semitones |-> 7, mix |-> harmonics.fifthUp],
     [name |-> "third_up", semitones |-> 4, mix |-> harmonics.thirdUp] >>

\* if (interval.mix && interval.mix > 0)
Qualifies(interval) == TruthyNumber(interval.mix) /\ Val(interval.mix) > 0

\* path.join(outputDirectory, `${baseName}_${interval.name}${ext}`)
HarmonicOutput(inputFile, interval) ==
  [dir |-> "out", name |-> <<inputFile.base, interval.name, inputFile.ext>>]

\* the operations of one interval: the pitch shift and the layering of the
\* shifted signal against the original, volumes in hundredths
HarmonicOperations(interval) ==
  [ volume |-> Absent, format |-> Absent, effects |-> Absent,
    advanced |->
      << [ pitch |-> << [semitones |-> interval.semitones, cents |-> Absent,
                         preserveFormants |-> Absent] >>,
           tempo |-> Absent, spectral |-> Absent, dynamics |-> Absent,
           spatial |-> Absent, modulation |-> Absent,
           layering |->
             << [layers |->
                   << [blend |-> "mix", volume |-> 100 - Val(interval.mix)],
                      [blend |-> "add", volume |-> Val(interval.mix),
                       pitch |-> interval.semitones] >>] >> ] >> ]

\* a create_harmonics request the handler has received
NewHarmonics(harmonics, overwrite) ==
  [pc |-> "received", inputFile |-> ToolInput, harmonics |-> harmonics,
   overwrite |-> overwrite, index |-> 0, outputFile |-> NoPath,
   operations |-> Absent, engine |-> <<>>, results |-> <<>>,
   response |-> NoResponse]

\* the loop over harmonicIntervals from the interval after h.index: the
\* next interval that qualifies calls processAudioFile, which runs to its
\* first await; when none is left the results are returned and the case
\* of the handler returns its payload
NextInterval(h) ==
  LET intervals == harmonicIntervals(h.harmonics)
      rest == { i \in (h.index + 1)..Len(intervals) : Qualifies(intervals[i]) }
  IN IF rest = {}
       THEN [h EXCEPT !.pc = "done", !.index = Len(intervals),
               !.response = Response([success |-> TRUE,
                                      harmonicsCreated |-> Len(h.results),
                                      results |-> h.results])]
       ELSE LET i == CHOOSE x \in rest : \A y \in rest : x <= y IN
            [h EXCEPT !.pc = "validate", !.index = i,
               !.outputFile = HarmonicOutput(h.inputFile, intervals[i]),
               !.operations = <<HarmonicOperations(intervals[i])>>]

\* processAudioFile returns: results.push(result), and the loop goes on
HarmonicJobReturn(h, result) ==
  NextInterval([h EXCEPT !.results = Append(@, result)])

\* case 'create_harmonics': createHarmonicVariations is called
CallCreateHarmonics ==
  /\ harmonic.pc = "received"
  /\ harmonic' = NextInterval(harmonic)
  /\ UNCHANGED <<layering, compilation, variation, toolCall, K, queue, pending,
                 isPaused, runs, calls, existing, startLog, pauses>>

\* await validateInputFile(inputFile) settles in the interval's job
HarmonicValidateDone(statOutcome) ==
  /\ harmonic.pc = "validate"
  /\ LET v == validateInputFile(statOutcome) IN
     harmonic' = IF v = "ok" THEN [harmonic EXCEPT !.pc = "prepare"]
                 ELSE HarmonicJobReturn(harmonic,
                        FailureResult(harmonic.inputFile, harmonic.outputFile, v))
  /\ UNCHANGED <<layering, compilation, variation, toolCall, K, queue, pending,
                 isPaused, runs, calls, existing, startLog, pauses>>

\* await ensureOutputDirectory(outputFile) settles in the interval's job
HarmonicPrepareDone(mkdirOutcome) ==
  /\ harmonic.pc = "prepare"
  /\ LET v == ensureOutputDirectory(mkdirOutcome) IN
     harmonic' = IF v = "ok" THEN [harmonic EXCEPT !.pc = "check"]
                 ELSE HarmonicJobReturn(harmonic,
                        FailureResult(harmonic.inputFile, harmonic.outputFile, v))
  /\ UNCHANGED <<layering, compilation, variation, toolCall, K, queue, pending,
                 isPaused, runs, calls, existing, startLog, pauses>>

\* await handleExistingOutput(outputFile, overwrite) settles; the command
\* is created, compiled by the advanced processor and handed to the engine
HarmonicCheckDone(accessOutcome) ==
  /\ harmonic.pc = "check"
  /\ accessOutcome \in AccessOutcomes(harmonic.outputFile)
  /\ LET v == handleExistingOutput(accessOutcome, harmonic.overwrite)
         command == applyOperationsToCommand("advanced", createFFmpegCommand,
                                             Val(harmonic.operations))
     IN harmonic' =
          IF v = "ok"
            THEN [harmonic EXCEPT !.pc = "engine",
                    !.engine = Append(@, [index |-> harmonic.index, command |-> command])]
            ELSE HarmonicJobReturn(harmonic,
                   FailureResult(harmonic.inputFile, harmonic.outputFile, v))
  /\ UNCHANGED <<layering, compilation, variation, toolCall, K, queue, pending,
                 isPaused, runs, calls, existing, startLog, pauses>>

\* the engine ends the interval's job with 'end' or with 'error'
HarmonicEngineDone(outcome) ==
  /\ harmonic.pc = "engine"
  /\ IF outcome = "end"
       THEN /\ existing' = existing \cup {harmonic.outputFile}
            /\ harmonic' = HarmonicJobReturn(harmonic,
                             SuccessResult(harmonic.inputFile, harmonic.outputFile))
       ELSE /\ existing' = existing
            /\ harmonic' = HarmonicJobReturn(harmonic,
                             FailureResult(harmonic.inputFile, harmonic.outputFile,
                                           "FFmpeg processing failed"))
  /\ UNCHANGED <<layering, compilation, variation, toolCall, K, queue, pending,
                 isPaused, runs, calls, startLog, pauses>>

\* the server has received one create_harmonics request
HarmonicInit ==
  /\ K \in 1..MaxK
  /\ queue = <<>>
  /\ pending = 0
  /\ isPaused = FALSE
  /\ runs = <<>>
  /\ calls = <<>>
  /\ startLog = <<>>
  /\ pauses = 0
  /\ compilation = Idle
  /\ variation = Idle
  /\ toolCall = Idle
  /\ layering = Idle
  /\ harmonic \in { NewHarmonics(h, o) : h \in HarmonicsOperations, o \in BOOLEAN }
  /\ existing \in SUBSET { HarmonicOutput(ToolInput, harmonicIntervals(harmonic.harmonics)[1]) }

HarmonicNext ==
  \/ CallCreateHarmonics
  \/ \E o \in {"file", "notfile", "missing"} : HarmonicValidateDone(o)
  \/ \E o \in {"ok", "fail"} : HarmonicPrepareDone(o)
  \/ \E o \in {"ok", "ENOENT", "EACCES"} : HarmonicCheckDone(o)
  \/ \E o \in {"end", "error"} : HarmonicEngineDone(o)

HarmonicSpec == HarmonicInit /\ [][HarmonicNext]_vars

(* ----------------------------- layerSounds ----------------------------- *)
\* the pieces of a filter graph: a label `[name<i>]`, a filter and the
\* separator `;` of two chains
Label(name, i) == [t |-> "label", name |-> name, i |-> i, p |-> <<>>]
Filter(name, p) == [t |-> "filter", name |-> name, i |-> 0, p |-> p]
Sep == [t |-> "sep", name |-> ";", i |-> 0, p |-> <<>>]

\* a layer of LayeringOperation.layers
Layer(delay, pitch, volume, pan) ==
  [blend |-> "mix", delay |-> delay, pitch |-> pitch, volume |-> volume, pan |-> pan]

\* the layers of the model: no effect, one effect alone (a delay and a
\* pitch of 0 among them), every effect at once
Layers ==
  { Layer(Absent, Absent, Absent, Absent),
    Layer(<<0>>, Absent, Absent, Absent),
    Layer(<<50>>, Absent, Absent, Absent),
    Layer(Absent, <<7>>, Absent, Absent),
    Layer(Absent, Absent, <<50>>, Absent),
    Layer(Absent, Absent, Absent, <<-1>>),
    Layer(<<50>>, <<7>>, <<50>>, <<1>>) }

\* the body of layers.forEach for the layer of index i (from 0): the
\* chain of the layer, closed by `[processed<i>];`
layerFilter(layer, i) ==
  LET l0 == <<Label("a", i)>>
      l1 == IF TruthyNumber(layer.delay)
              THEN l0 \o <<Filter("adelay", <<Val(layer.delay)>>), Label("delayed", i),
                           Sep, Label("delayed", i)>>
              ELSE l0
      l2 == IF TruthyNumber(layer.pitch)
              THEN l1 \o <<Filter("asetrate", <<Val(layer.pitch)>>), Label("pitched", i),
                           Sep, Label("pitched", i)>>
              ELSE l1
      l3 == IF Has(layer.volume)
              THEN l2 \o <<Filter("volume", <<Val(layer.volume)>>), Label("vol", i),
                           Sep, Label("vol", i)>>
              ELSE l2
      l4 == IF Has(layer.pan)
              THEN LET pan == Val(layer.pan) IN
                   l3 \o <<Filter("pan", <<1 - Abs(Min(0, pan)), Max(0, 0 - pan),
                                            1 - Abs(Max(0, pan)), Max(0, pan)>>),
                           Label("pan", i), Sep, Label("pan", i)>>
              ELSE l3
  IN l4 \o <<Label("processed", i), Sep>>

\* layers.forEach((layer, i) => { if (i < inputFiles.length) ... }) from the
\* layer of index i on
RECURSIVE forEachLayer(_, _, _)
forEachLayer(inputs, layers, i) ==
  IF i >= Len(layers) THEN <<>>
  ELSE (IF i < inputs THEN layerFilter(layers[i + 1], i) ELSE <<>>)
       \o forEachLayer(inputs, layers, i + 1)

\* buildLayeringFilter(inputFiles, layering): the chains of the layers, then
\* `[processed0]...amix=inputs=<layers.length>:duration=longest:
\* dropout_transition=2[final]` over layers.map
buildLayeringFilter(inputs, layers) ==
  forEachLayer(inputs, layers, 0)
  \o [n \in 1..Len(layers) |-> Label("processed", n - 1)]
  \o <<Filter("amix", <<Len(layers)>>), Label("final", 0)>>

\* layerSounds has validated its inputs and prepared its output
NewLayering(inputs, layers) ==
  [pc |-> "created", inputs |-> inputs, layers |-> layers, graph |-> <<>>,
   success |-> FALSE]

\* command.complexFilter(this.buildLayeringFilter(inputFiles, layering)) and
\* the start of the engine
LayerBuild ==
  /\ layering.pc = "created"
  /\ layering' = [layering EXCEPT !.pc = "engine",
                    !.graph = buildLayeringFilter(layering.inputs, layering.layers)]
  /\ UNCHANGED <<harmonic, compilation, variation, toolCall, K, queue, pending,
                 isPaused, runs, calls, existing, startLog, pauses>>

\* await executeFFmpegCommand(command, outputFile) settles: layerSounds
\* returns the success or the failure
LayerEngineDone(outcome) ==
  /\ layering.pc = "engine"
  /\ layering' = [layering EXCEPT !.pc = "returned", !.success = (outcome = "end")]
  /\ UNCHANGED <<harmonic, compilation, variation, toolCall, K, queue, pending,
                 isPaused, runs, calls, existing, startLog, pauses>>

\* a layerSounds call over 1..MaxInputs input files and up to MaxLayers layers
LayerInit ==
  /\ K = 1
  /\ queue = <<>>
  /\ pending = 0
  /\ isPaused = FALSE
  /\ runs = <<>>
  /\ calls = <<>>
  /\ existing = {}
  /\ startLog = <<>>
  /\ pauses = 0
  /\ compilation = Idle
  /\ variation = Idle
  /\ toolCall = Idle
  /\ harmonic = Idle
  /\ layering \in { NewLayering(n, l) : n \in 1..MaxInputs,
                      l \in UNION { [1..m -> Layers] : m \in 0..MaxLayers } }

LayerNext ==
  \/ LayerBuild
  \/ \E o \in {"end", "error"} : LayerEngineDone(o)

LayerSpec == LayerInit /\ [][LayerNext]_vars

(* ------------------------------ properties ----------------------------- *)
Range(f) == { f[i] : i \in DOMAIN f }

\* the jobs the queue is executing: started, promise not yet settled
Executing(j) ==
  /\ runs[j].call # 0
  /\ runs[j].pc \in {"jobThrew", "validate", "prepare", "check", "engine"}

\* processAudioFile has been entered for the run and has not returned
InProcessAudioFile(j) == runs[j].pc \in {"validate", "prepare", "check", "engine"}

\* C1: processAudioFile never throws or rejects: whichever step fails, a run
\* of processAudioFile ends by returning exactly one ProcessingResult; the
\* result has success = false and an error message exactly when a step
\* (validation, output directory, overwrite check, compilation, engine)
\* failed, and success = true exactly when the engine reported completion.
C1_ProcessAudioFileTotal ==
  \A j \in DOMAIN runs :
    LET r == runs[j] IN
    /\ InProcessAudioFile(j) => (r.nresults = 0 /\ r.result = NoResult /\ r.failedStep = None)
    /\ r.failedStep # None => r.pc = "returned"
    /\ r.engine # None => r.pc = "returned"
    /\ r.pc = "returned" =>
         /\ r.nresults = 1
         /\ r.result.kind = "result"
         /\ r.result.success = (r.engine = "end")
         /\ (~r.result.success) = (r.failedStep # None)
         /\ (~r.result.success) = (r.result.error # None)

\* a direct call whose compilation threw has returned a failed result
C1_Witness ==
  \E j \in DOMAIN runs :
    /\ runs[j].pc = "returned"
    /\ runs[j].failedStep = "compile"
    /\ ~runs[j].result.success

\* C2: in a batch, no failure of an individual job (validation, output
\* preparation, compilation, engine) makes the batch call reject: the call
\* rejects only when discovery found no file, and a call that has ended
\* holds one ProcessingResult per discovered file.
C2_BatchIsolatesJobFailures ==
  \A c \in DOMAIN calls :
    /\ calls[c].state = "rejected" => Len(calls[c].files) = 0
    /\ calls[c].state = "returned" =>
         Len(calls[c].result.results) = Len(calls[c].files)

\* C3: at most K jobs of the queue are executing at every instant, a job is
\* started only into a free slot, and waiting jobs start in FIFO order: the
\* queue holds the submitted jobs in submission order and every waiting job
\* was submitted after every job already started.
C3_BoundedFifo ==
  /\ Cardinality({ j \in DOMAIN runs : Executing(j) }) <= K
  /\ pending = Cardinality({ j \in DOMAIN runs : Executing(j) })
  /\ \A i, j \in DOMAIN queue : i < j => queue[i] < queue[j]
  /\ \A i, j \in DOMAIN startLog : i < j => startLog[i] < startLog[j]
  /\ \A w \in Range(queue), s \in Range(startLog) : s < w
  /\ \A w \in Range(queue) : runs[w].pc = "queued"

\* all K slots are busy and a job waits although the queue is not paused
C3_Witness ==
  /\ ~isPaused
  /\ queue # <<>>
  /\ Cardinality({ j \in DOMAIN runs : Executing(j) }) = K

\* C4: every BatchResult returned satisfies totalFiles = number of
\* discovered files = results.length and totalFiles = successfulFiles +
\* failedFiles, successfulFiles being the number of results with success.
C4_BatchCounts ==
  \A c \in DOMAIN calls :
    calls[c].state = "returned" =>
      LET b == calls[c].result IN
      /\ b.totalFiles = Len(calls[c].files)
      /\ b.totalFiles = Len(b.results)
      /\ b.totalFiles = b.successfulFiles + b.failedFiles
      /\ b.successfulFiles = Cardinality({ i \in DOMAIN b.results : b.results[i].success })

\* a returned batch with a successful and a failed file
C4_Witness ==
  \E c \in DOMAIN calls :
    /\ calls[c].state = "returned"
    /\ calls[c].result.successfulFiles >= 1
    /\ calls[c].result.failedFiles >= 1

\* C5: BatchResult.results is in discovery order: results[i] is the result
\* of the i-th discovered file, whatever the order in which the jobs ended.
C5_ResultsInDiscoveryOrder ==
  \A c \in DOMAIN calls :
    calls[c].state = "returned" =>
      /\ DOMAIN calls[c].result.results = DOMAIN calls[c].files
      /\ \A i \in DOMAIN calls[c].files :
           calls[c].result.results[i].inputFile = calls[c].files[i]

\* a returned batch in which a later file ended before an earlier one
C5_Witness ==
  \E c \in DOMAIN calls :
    /\ calls[c].state = "returned"
    /\ \E j \in DOMAIN runs : runs[j].call = c /\ runs[j].overtook

\* C6: when discovery yields zero files the batch call fails with the 'no
\* files found' error, submits no job and invokes the engine zero times; no
\* BatchResult is empty.
C6_NoFilesFails ==
  \A c \in DOMAIN calls :
    /\ (calls[c].state # "discover" /\ calls[c].input.directory # None
          /\ Len(calls[c].files) = 0) =>
         /\ calls[c].state = "rejected"
         /\ calls[c].error = "Batch processing failed: No audio files found matching the criteria"
         /\ \A j \in DOMAIN runs : runs[j].call # c
    /\ calls[c].state = "returned" => calls[c].result.totalFiles > 0

\* a batch call over a directory without matching files has been rejected
C6_Witness ==
  \E c \in DOMAIN calls :
    /\ calls[c].state = "rejected"
    /\ calls[c].input.directory # None
    /\ calls[c].files = <<>>
    /\ calls[c].error = "Batch processing failed: No audio files found matching the criteria"

\* C7: after pause() no queued job starts until resume(); pause() itself
\* changes no job, and the jobs executing while the queue is paused can
\* take their next step towards their result; resume() starts queued jobs
\* from the head of the queue, in their FIFO order.
C7_PauseHoldsQueue ==
  /\ [][ (isPaused /\ isPaused') =>
           /\ startLog' = startLog
           /\ \A j \in DOMAIN runs :
                runs[j].pc = "queued" => runs'[j].pc \in {"queued", "cleared"} ]_vars
  /\ [][ (~isPaused /\ isPaused') =>
           (runs' = runs /\ queue' = queue /\ pending' = pending /\ startLog' = startLog) ]_vars
  /\ [][ (isPaused /\ ~isPaused') =>
           LET n == Len(startLog') - Len(startLog) IN
           /\ n >= 0
           /\ n <= Len(queue)
           /\ startLog' = startLog \o SubSeq(queue, 1, n)
           /\ queue' = SubSeq(queue, n + 1, Len(queue)) ]_vars
  /\ [](isPaused => \A j \in DOMAIN runs : Executing(j) => ENABLED JobStepOf(j))

\* the queue is paused with a job waiting and a free slot, and a job that
\* was executing when pause() was called has returned its result
C7_Witness ==
  /\ isPaused
  /\ pending < K
  /\ \E w \in Range(queue), j \in DOMAIN runs :
       /\ runs[j].call = runs[w].call
       /\ j < w
       /\ runs[j].pc = "returned"

\* C8: clear() removes exactly the jobs that are queued and not started (the
\* queue size becomes 0): they never start, never invoke the engine and
\* never change again, while the jobs executing are left as they are and
\* can still take their steps to their ProcessingResult.
C8_ClearFrame ==
  /\ [][ (queue # <<>> /\ queue' = <<>> /\ startLog' = startLog) =>
           /\ pending' = pending
           /\ isPaused' = isPaused
           /\ \A j \in DOMAIN runs : j \notin Range(queue) => runs'[j] = runs[j]
           /\ \A j \in Range(queue) : runs'[j].pc = "cleared" ]_vars
  /\ [][ \A j \in DOMAIN runs : runs[j].pc = "cleared" => runs'[j] = runs[j] ]_vars
  /\ [](\A j \in DOMAIN runs :
          /\ runs[j].pc = "cleared" =>
               /\ runs[j].engineRuns = 0
               /\ runs[j].result = NoResult
               /\ j \notin Range(startLog)
               /\ j \notin Range(queue)
          /\ (Executing(j) /\ \E d \in DOMAIN runs : runs[d].pc = "cleared") =>
               ENABLED JobStepOf(j))

\* in a queue that was never paused, a waiting job has been cleared and the
\* job that was executing at that moment has run the engine and returned
C8_Witness ==
  /\ pauses = 0
  /\ \E d, j \in DOMAIN runs :
       /\ runs[d].pc = "cleared"
       /\ runs[j].call = runs[d].call
       /\ j < d
       /\ runs[j].pc = "returned"
       /\ runs[j].engineRuns = 1

\* C9: every batchProcessAudio call eventually completes, with a BatchResult
\* or with a single error, provided every engine run ends or errors and
\* every pause() is followed by resume(), also when clear() is called while
\* jobs of the batch are queued.
C9_BatchCompletes ==
  \A c \in 1..MaxCalls :
    (c \in DOMAIN calls) ~> (c \in DOMAIN calls /\ calls[c].state \in {"returned", "rejected"})

StepOrder == <<"validate", "prepare", "check", "compile", "execute">>

IsPrefix(a, b) == Len(a) <= Len(b) /\ a = SubSeq(b, 1, Len(a))

\* C11: the steps of a job happen only in the order validate input, prepare
\* output directory, overwrite check, compile, execute; a job whose input
\* validation failed took no other step (no directory, no overwrite check,
\* no compilation, no engine run) and ended Failed with the validation cause.
C11_StepOrder ==
  \A j \in DOMAIN runs :
    LET r == runs[j] IN
    /\ IsPrefix(r.steps, StepOrder)
    /\ r.failedStep = "validate" =>
         /\ r.steps = <<"validate">>
         /\ r.engineRuns = 0
         /\ r.pc = "returned"
         /\ ~r.result.success
         /\ r.result.error \in {"Path is not a file", "Cannot access input file"}

\* the job has passed input validation, output preparation and the
\* overwrite check
Prepared(r) == "check" \in Range(r.steps) /\ r.failedStep # "check"

Compiled(r) == Prepared(r) /\ r.failedStep # "compile"

Handling == toolCall.pc \in {"received", "awaitJob", "awaitBatch", "awaitOperation"}

C14_InvalidArgsStopAtBoundary ==
  ( /\ toolCall.pc # "idle"
    /\ \/ toolCall.name = "process_audio_file" /\ ~ProcessAudioFileInputSchema(toolCall.args)
       \/ toolCall.name = "batch_process_audio" /\ ~BatchProcessAudioInputSchema(toolCall.args) )
  => /\ runs = <<>>
     /\ calls = <<>>
     /\ toolCall.pc = "done" =>
          /\ toolCall.response.isError
          /\ toolCall.response.content.error.code = "TOOL_EXECUTION_FAILED"

\* C15: two generateVariations calls with the same explicit integer seed
\* and the same variation parameters produce the same perturbation values
\* (pitch, bass, treble, tempo) at every variation index both have reached.
C15_SeedDeterminism ==
  (variation.pc = "running" /\ Has(variation.params.seed)) =>
    LET a == variation.gen[1].out
        b == variation.gen[2].out IN
    \A i \in (DOMAIN a) \cap (DOMAIN b) : a[i] = b[i]

\* the plan has been compiled (and possibly handed to the engine)
Planned == compilation.pc \in {"compiled", "executed"}

\* the filter list of the plan and its directives of a kind
Plan == compilation.command
OfKind(kind) == { i \in DOMAIN Plan.filters : Plan.filters[i].kind = kind }

\* the OperationSet asks for a loop: enabled and count > 1
LoopRequested(ops) ==
  /\ Has(ops.effects)
  /\ Has(Val(ops.effects).loop)
  /\ Val(Val(ops.effects).loop).enabled
  /\ Val(Val(ops.effects).loop).count > 1

\* C16: when effects.loop is enabled with count > 1, with or without fades,
\* the filter list handed to the engine holds exactly one loop directive,
\* whose repeat parameter is count - 1; otherwise it holds no loop directive.
C16_LoopDirective ==
  Planned =>
    IF LoopRequested(compilation.operations)
      THEN /\ Cardinality(OfKind("aloop")) = 1
           /\ \A i \in OfKind("aloop") :
                Plan.filters[i].p = <<Val(Val(compilation.operations.effects).loop).count - 1>>
      ELSE OfKind("aloop") = {}

\* the order in which the filters are to reach the engine
FilterOrder ==
  << "volume", "loudnorm", "afade_in", "afade_out", "pitch", "tempo", "spectral",
     "acompressor", "agate", "alimiter", "extrastereo", "pan", "adelay", "afeedback",
     "aecho", "tremolo", "vibrato", "chorus" >>

Rank(kind) == CHOOSE r \in DOMAIN FilterOrder : FilterOrder[r] = kind

BaseKinds == {"volume", "loudnorm", "afade_in", "afade_out"}

\* C17: the filter directives of every plan are in the order gain, loudness
\* normalization, fade-in, fade-out, pitch, tempo, spectral, compressor,
\* gate, limiter, stereo width, pan, delay, feedback, reverb, tremolo,
\* vibrato, chorus; so gain precedes normalization and every base filter
\* precedes every advanced filter.
C17_FilterOrder ==
  Planned =>
    /\ \A i \in DOMAIN Plan.filters : Plan.filters[i].kind \in Range(FilterOrder)
    /\ \A i, j \in DOMAIN Plan.filters :
         i < j => Rank(Plan.filters[i].kind) < Rank(Plan.filters[j].kind)
    /\ \A i, j \in DOMAIN Plan.filters :
         (Plan.filters[i].kind \in BaseKinds /\ Plan.filters[j].kind \notin BaseKinds)
           => i < j

\* the advanced processor has compiled gain, normalization, both fades and
\* every advanced component into one plan
C17_Witness ==
  /\ compilation.pc = "executed"
  /\ compilation.processor = "advanced"
  /\ { Plan.filters[i].kind : i \in DOMAIN Plan.filters } = Range(FilterOrder)

\* the field `name` of an optional block: absent when the block is
Field(block, name) == IF Has(block) THEN Val(block)[name] ELSE Absent

\* every field of an optional block is absent
NoField(block) == \A name \in DOMAIN Val(block) : ~Has(Val(block)[name])
EmptyOrAbsent(block) == Has(block) => NoField(block)

\* the field of the OperationSet a filter directive is emitted for
SourceField(ops, kind) ==
  CASE kind = "volume"      -> Field(ops.volume, "adjust")
    [] kind = "loudnorm"    -> Field(ops.volume, "normalize")
    [] kind = "afade_in"    -> Field(ops.effects, "fadeIn")
    [] kind = "afade_out"   -> Field(ops.effects, "fadeOut")
    [] kind = "aloop"       -> Field(ops.effects, "loop")
    [] kind = "pitch"       -> Field(ops.advanced, "pitch")
    [] kind = "tempo"       -> Field(ops.advanced, "tempo")
    [] kind = "spectral"    -> Field(ops.advanced, "spectral")
    [] kind = "acompressor" -> Field(Field(ops.advanced, "dynamics"), "compressor")
    [] kind = "agate"       -> Field(Field(ops.advanced, "dynamics"), "gate")
    [] kind = "alimiter"    -> Field(Field(ops.advanced, "dynamics"), "limiter")
    [] kind = "extrastereo" -> Field(Field(ops.advanced, "spatial"), "stereoWidth")
    [] kind = "pan"         -> Field(Field(ops.advanced, "spatial"), "panPosition")
    [] kind = "adelay"      -> Field(Field(ops.advanced, "spatial"), "delayTime")
    [] kind = "afeedback"   -> Field(Field(ops.advanced, "spatial"), "delayFeedback")
    [] kind = "aecho"       -> Field(Field(ops.advanced, "spatial"), "reverbSend")
    [] kind = "tremolo"     -> Field(Field(ops.advanced, "modulation"), "tremolo")
    [] kind = "vibrato"     -> Field(Field(ops.advanced, "modulation"), "vibrato")
    [] kind = "chorus"      -> Field(Field(ops.advanced, "modulation"), "chorus")

\* the sub-block of the advanced block a filter directive belongs to
SubBlockOf(kind) ==
  CASE kind \in {"pitch", "tempo", "spectral"}                          -> kind
    [] kind \in {"acompressor", "agate", "alimiter"}                     -> "dynamics"
    [] kind \in {"extrastereo", "pan", "adelay", "afeedback", "aecho"}   -> "spatial"
    [] kind \in {"tremolo", "vibrato", "chorus"}                          -> "modulation"
    [] OTHER                                                             -> "base"

\* C18: every filter directive and every command-level setting of a plan
\* stems from a field present in the OperationSet; an empty OperationSet
\* yields the empty plan; without an advanced block, and from a sub-block
\* that is present but empty, no advanced directive is emitted; every
\* OperationSet compiles.
C18_OnlyPresentFields ==
  LET ops == compilation.operations IN
  /\ compilation.pc = "created" => ENABLED Compile
  /\ Planned =>
       /\ \A i \in DOMAIN Plan.filters : Has(SourceField(ops, Plan.filters[i].kind))
       /\ Has(Plan.sampleRate) => Has(Field(ops.format, "sampleRate"))
       /\ Has(Plan.channels) => Has(Field(ops.format, "channels"))
       /\ Has(Plan.codec) => Has(Field(ops.format, "codec"))
       /\ Has(Plan.bitrate) => Has(Field(ops.format, "bitrate"))
       /\ Has(Plan.seek) => Has(Field(ops.effects, "trim"))
       /\ Has(Plan.duration) => Has(Field(ops.effects, "trim"))
       /\ (~Has(ops.volume) /\ ~Has(ops.format) /\ ~Has(ops.effects) /\ ~Has(ops.advanced))
            => Plan = createFFmpegCommand
       /\ ~Has(ops.advanced) =>
            \A i \in DOMAIN Plan.filters : Plan.filters[i].kind \in BaseKinds
       /\ \A i \in DOMAIN Plan.filters :
            LET b == SubBlockOf(Plan.filters[i].kind) IN
            b # "base" /\ b \notin {"pitch", "tempo"} =>
              ~NoField(Field(ops.advanced, b))

\* only volume.adjust is set: no other field of any block is present
OnlyGain(ops) ==
  /\ Has(Field(ops.volume, "adjust"))
  /\ ~Has(Field(ops.volume, "normalize"))
  /\ ~Has(Field(ops.volume, "targetLUFS"))
  /\ EmptyOrAbsent(ops.format)
  /\ EmptyOrAbsent(ops.effects)
  /\ EmptyOrAbsent(ops.advanced)

\* C19: when only volume.adjust = X is set, the plan is one gain directive
\* with the parameter X, no other filter directive and no command-level
\* setting.
C19_GainOnly ==
  (Planned /\ OnlyGain(compilation.operations)) =>
    Plan = [createFFmpegCommand EXCEPT
              !.filters = <<Directive("volume", <<Val(Field(compilation.operations.volume,
                                                                  "adjust"))>>)>>]

\* a plan for the gain 0 alone has been handed to the engine
C19_Witness ==
  /\ compilation.pc = "executed"
  /\ OnlyGain(compilation.operations)
  /\ Val(Field(compilation.operations.volume, "adjust")) = 0
  /\ Len(Plan.filters) = 1

\* C20: with effects.trim = {start, end} the seek offset of the plan is
\* start; the duration cap is set exactly when end > start and is then
\* end - start.
C20_Trim ==
  (Planned /\ Has(Field(compilation.operations.effects, "trim"))) =>
    LET t == Val(Field(compilation.operations.effects, "trim")) IN
    /\ Plan.seek = <<t.start>>
    /\ Has(Plan.duration) = (t.end > t.start)
    /\ t.end > t.start => Plan.duration = <<t.end - t.start>>

\* a plan for an inverted trim has been handed to the engine with the seek
\* offset and without a duration cap
C20_Witness ==
  /\ compilation.pc = "executed"
  /\ Has(Field(compilation.operations.effects, "trim"))
  /\ Val(Field(compilation.operations.effects, "trim")).end
       < Val(Field(compilation.operations.effects, "trim")).start
  /\ Has(Plan.seek)
  /\ ~Has(Plan.duration)

\* the intervals of the request in hand, and those with a mix level > 0
Intervals == harmonicIntervals(harmonic.harmonics)
Qualifying == { i \in DOMAIN Intervals : Qualifies(Intervals[i]) }

\* C21: a create_harmonics call in which no interval has a mix level > 0
\* ends with an error response, not with a result list, and the engine is
\* never invoked for it.
C21_EmptyHarmonicsFail ==
  (harmonic.pc = "done" /\ Qualifying = {}) =>
     /\ harmonic.response.isError
     /\ harmonic.engine = <<>>

\* the filters of a plan handed to the engine
PlanFilters(e) == Range(e.command.filters)

\* C29: each interval with a mix level > 0 gets exactly one job, and the
\* plan handed to the engine for it holds the pitch shift by the interval
\* and the mix of the shifted signal against the original at the volumes
\* 1 - mix and mix.
C29_HarmonicPlans ==
  /\ \A i \in DOMAIN Intervals :
       Cardinality({ n \in DOMAIN harmonic.engine : harmonic.engine[n].index = i }) <= 1
  /\ harmonic.pc = "done" => Len(harmonic.results) = Cardinality(Qualifying)
  /\ \A n \in DOMAIN harmonic.engine :
       LET e == harmonic.engine[n]
           interval == Intervals[e.index]
       IN /\ Qualifies(interval)
          /\ \E d \in PlanFilters(e) :
               d.kind = "pitch" /\ d.p[1] = interval.semitones * 100
          /\ \E d \in PlanFilters(e) :
               d.kind = "amix" /\ d.p = <<100 - Val(interval.mix), Val(interval.mix)>>

\* the call k of generateVariations has returned n results, the i-th for
\* the output file name_var<i>
ReturnedAll(k) ==
  LET g == variation.gen[k] IN
  /\ g.pc = "returned"
  /\ Len(g.results) = variation.params.count
  /\ \A i \in DOMAIN g.results :
       g.results[i].outputFile = VariationOutput(g.inputFile, i - 1)
  /\ \A i, j \in DOMAIN g.results :
       i # j => g.results[i].outputFile # g.results[j].outputFile

Outstanding == { j \in DirectRuns : runs[j].pc # "returned" }
Completed == { j \in DirectRuns : runs[j].pc = "returned" }

\* C23: direct processAudioFile calls go through the queue: at most K of
\* them are inside processAudioFile at once, the other outstanding calls are
\* counted in getQueueStatus().size, no call completes while the queue is
\* paused, and size and pending are 0 once all calls have finished.
C23_DirectCallsQueued ==
  /\ [](Cardinality({ j \in DirectRuns : InProcessAudioFile(j) }) <= K)
  /\ [](Cardinality(Outstanding) > K => Len(queue) > 0)
  /\ [][isPaused => Completed' = Completed]_vars
  /\ [](Outstanding = {} => Len(queue) = 0 /\ pending = 0)

\* C24: with overwrite = false the engine never runs on an output file that
\* exists, and of two jobs of one batch that derive the same output path at
\* most one invokes the engine on it.
C24_NoOverwriteRace ==
  /\ \A j \in DOMAIN runs :
       (runs[j].pc = "engine" /\ ~runs[j].overwrite) => runs[j].outputFile \notin existing
  /\ \A i, j \in DOMAIN runs :
       ( /\ i # j
         /\ runs[i].call # 0
         /\ runs[i].call = runs[j].call
         /\ runs[i].outputFile = runs[j].outputFile
         /\ ~runs[i].overwrite ) =>
       ~(runs[i].engineRuns > 0 /\ runs[j].engineRuns > 0)

\* C25: the jobs of batchProcessAudio calls that run concurrently on one
\* processor share its queue: the jobs executing, over all calls together,
\* never exceed K, and the BatchResult of a call holds exactly the results
\* of the files that call discovered, in their order.
C25_SharedQueue ==
  /\ Cardinality({ j \in DOMAIN runs : Executing(j) }) <= K
  /\ pending = Cardinality({ j \in DOMAIN runs : Executing(j) })
  /\ \A c \in DOMAIN calls :
       calls[c].state = "returned" =>
         LET b == calls[c].result IN
         /\ Len(b.results) = Len(calls[c].files)
         /\ \A i \in DOMAIN b.results :
              /\ runs[JobsOf(c)[i]].call = c
              /\ b.results[i] = runs[JobsOf(c)[i]].result
              /\ b.results[i].inputFile = calls[c].files[i]

\* the first call has returned the results of its two files while a job of
\* the second call is executing and K is 1
C25_Witness ==
  /\ Len(calls) = 2
  /\ K = 1
  /\ calls[1].state = "returned"
  /\ Len(calls[1].files) = 2
  /\ calls[2].state = "await"
  /\ \E j \in DOMAIN runs : runs[j].call = 2 /\ Executing(j)

\* the filter graph handed to the engine, its mix-down directive and the
\* labels the directive reads
Graph == layering.graph
MixAt == CHOOSE n \in DOMAIN Graph : Graph[n].t = "filter" /\ Graph[n].name = "amix"
MixInputs ==
  { n \in 1..(MixAt - 1) : \A m \in n..(MixAt - 1) : Graph[m].t = "label" }

\* the indices of the layers whose chain the graph holds, closed by
\* `[processed<i>];`
Processed ==
  { Graph[n].i : n \in { m \in 1..(MixAt - 2) :
       /\ Graph[m].t = "label"
       /\ Graph[m].name = "processed"
       /\ Graph[m + 1].t = "sep" } }

\* C26: layers with an index >= the number of inputs are ignored: the
\* mix-down directive reads only labels that a layer chain before it
\* produces, and its input count is the number of processed layers.
C26_MixCombinesProcessed ==
  layering.pc \in {"engine", "returned"} =>
    /\ \A n \in DOMAIN Graph : Graph[n].t = "label" => Graph[n].i < layering.inputs
    /\ \A n \in MixInputs : Graph[n].name = "processed" /\ Graph[n].i \in Processed
    /\ Graph[MixAt].p = <<Cardinality(Processed)>>

\* the spatial sub-block of the OperationSet in hand
SpatialBlock == Field(compilation.operations.advanced, "spatial")
FeedbackRequested ==
  Has(Field(SpatialBlock, "delayFeedback")) /\ Val(Field(SpatialBlock, "delayFeedback")) > 0

\* C27: the advanced processor emits a delay-feedback directive only when a
\* delay is requested with a feedback > 0; for a delay whose feedback is
\* absent or 0 it emits the delay directive and no feedback directive.
C27_FeedbackOnlyWhenRequested ==
  (Planned /\ compilation.processor = "advanced") =>
    /\ OfKind("afeedback") # {} =>
         Has(Field(SpatialBlock, "delayTime")) /\ FeedbackRequested
    /\ (Has(Field(SpatialBlock, "delayTime")) /\ ~FeedbackRequested) =>
         OfKind("adelay") # {} /\ OfKind("afeedback") = {}

\* a state of the generator that is a draw in [0, 1)
UnitDraw(st) == ~st.neg \/ (st.hi = 0 /\ st.lo = 0)

\* a perturbation within its range: |rng() - 0.5| <= 0.5, which keeps a
\* shift within plus or minus its range and a tempo factor within 0.9 .. 1.1
WithinRange(shift) ==
  /\ shift.num.hi >= 0 - (Limb \div 2)
  /\ shift.num.hi < Limb \div 2

\* C28: for every integer seed a request can carry, every draw of the
\* seeded generator lies in [0, 1), so every pitch, bass and treble shift
\* lies within plus or minus its range and every tempo factor within
\* 0.9 .. 1.1.
C28_DrawsInUnitInterval ==
  variation.pc = "running" =>
    \A k \in DOMAIN variation.gen :
      LET g == variation.gen[k] IN
      /\ (Len(g.out) > 0 /\ g.state # SeedState(Val(g.seed))) => UnitDraw(g.state)
      /\ \A i \in DOMAIN g.out :
           /\ WithinRange(g.out[i].pitch)
           /\ WithinRange(g.out[i].bass)
           /\ WithinRange(g.out[i].treble)
           /\ WithinRange(g.out[i].tempo)

\* the kinds of directive only the advanced block produces
AdvancedKinds == Range(FilterOrder) \ BaseKinds

\* the OperationSet carries an advanced block that asks for something
AsksAdvanced(ops) ==
  /\ Has(ops.advanced)
  /\ applyAdvancedOperations(createFFmpegCommand, Val(ops.advanced)) # createFFmpegCommand

\* C30: the standard processor never emits an advanced directive: for an
\* OperationSet with an advanced block its plan is the plan of the base
\* operations alone, while the result it returns echoes the whole
\* OperationSet and reports success exactly when the engine succeeded.
C30_StandardBaseOnly ==
  /\ (Planned /\ compilation.processor = "standard") =>
       /\ \A i \in DOMAIN Plan.filters : Plan.filters[i].kind \notin AdvancedKinds
       /\ Plan = baseApplyOperationsToCommand(createFFmpegCommand, compilation.operations)
  /\ (compilation.pc = "executed" /\ compilation.processor = "standard") =>
       /\ Has(compilation.result)
       /\ Val(compilation.result).operations = compilation.operations
       /\ Val(compilation.result).success = (Val(compilation.engine) = "end")

\* a standard plan of an OperationSet with base and advanced operations was
\* handed to the engine, which succeeded
C30_Witness ==
  /\ compilation.pc = "executed"
  /\ compilation.processor = "standard"
  /\ AsksAdvanced(compilation.operations)
  /\ Len(Plan.filters) > 0
  /\ Val(compilation.engine) = "end"
  /\ Val(compilation.result).success

====
